---- MODULE Spec2Model ----
(***************************************************************************)
(* Model of bun-isolated-runner: runIsolated, its worker pool runParallel, *)
(* the sticky-pass cache and the telemetry summary.                        *)
(*                                                                         *)
(* One run of runIsolated is the sequence                                  *)
(*   StartRun      load cache, partition, start the first pass' workers    *)
(*   Complete(w)   a child process of worker w closed (or failed to spawn) *)
(*   EndFirstPass  `await runParallel` resumed: retry pass or finish       *)
(*   EndRetryPass  the retry pass resumed: replace results and finish      *)
(* and the environment edits files between any two of these steps.         *)
(***************************************************************************)
EXTENDS Integers, Sequences, FiniteSets, TLC

\* ------------------------------------------------------------------ bounds
MaxFiles == 3
MaxContent == 2
MaxRuns == 2
MaxDuration == 2
MaxParallel == 2
MaxRetries == 2
MaxMaxFailures == 2
MaxArgs == 3

\* ------------------------------------------------------- program constants
STICKY_PASS_CACHE_VERSION == 1
DefaultTimeout == 30000
ShortTimeout == 20000

\* ------------------------------------------------------------------ domains
Paths == {"a.test.ts", "b.test.ts"}
Unreadable == 0
Contents == 1..MaxContent

Min(a, b) == IF a < b THEN a ELSE b
Max(a, b) == IF a > b THEN a ELSE b

\* JavaScript number | undefined, as far as resolvedMaxFailures tells them apart
UNDEFINED == [t |-> "undefined", n |-> 0]
NAN == [t |-> "nan", n |-> 0]
INF == [t |-> "inf", n |-> 0]
NUM(n) == [t |-> "number", n |-> n]

\* `x || NaN`: undefined, NaN and 0 are falsy
OrNaN(v) == IF v.t \in {"undefined", "nan"} \/ (v.t = "number" /\ v.n = 0) THEN NAN ELSE v
IsFinite(v) == v.t = "number"

\* Number.isFinite(maxFailures || NaN) ? Math.max(1, maxFailures) : Infinity
SafeMaxFailures(maxFailures) ==
    IF IsFinite(OrNaN(maxFailures)) THEN NUM(Max(1, maxFailures.n)) ELSE INF

\* the slip of dropping `bail ? 1 :`
ResolvedMaxFailures_IgnoringBail(bail, maxFailures) == SafeMaxFailures(maxFailures)

\* bail ? 1 : safeMaxFailures
ResolvedMaxFailures(bail, maxFailures) ==
    IF bail THEN NUM(1) ELSE SafeMaxFailures(maxFailures)

\* the slip of writing `failures <= maxFailures`
CanContinue_OffByOne(failures, maxFailures) ==
    maxFailures.t = "inf" \/ (maxFailures.t = "number" /\ failures <= maxFailures.n)

\* canContinue = () => failures < maxFailures   (maxFailures may be Infinity)
CanContinue(failures, maxFailures) ==
    maxFailures.t = "inf" \/ (maxFailures.t = "number" /\ failures < maxFailures.n)

WorkerCount_IgnoringConcurrency(concurrency, n) == Min(MaxParallel, n)

\* number of iterations of `for (i = 0; i < Math.min(concurrency, files.length); i++)`
WorkerCount(concurrency, n) == Max(0, Min(concurrency, n))

\* ------------------------------------------------------------ digests
\* hashToHex is SHA-1; it is modelled as an injective tagging of its input
\* (no collisions), so equal digests mean equal inputs.
HashToHex(value) == [alg |-> "sha1", of |-> value]
Missing == [alg |-> "missing", of |-> 0]
NullFp == [alg |-> "null", of |-> <<>>]

\* hashFileIfExists(preloadPath): 'missing' when absent or unreadable
HashFileIfExists(bytes) == IF bytes = Unreadable THEN Missing ELSE HashToHex(bytes)

BuildStickyRunSalt_IgnoringTimeout(bun, preloadBytes, timeout) ==
    HashToHex(<<STICKY_PASS_CACHE_VERSION, bun, HashFileIfExists(preloadBytes), DefaultTimeout>>)

BuildStickyRunSalt(bun, preloadBytes, timeout) ==
    HashToHex(<<STICKY_PASS_CACHE_VERSION, bun, HashFileIfExists(preloadBytes), timeout>>)

BuildStickyFingerprint_IgnoringContent(file, bytes, runSalt) ==
    IF bytes = Unreadable THEN NullFp
    ELSE HashToHex(<<runSalt, file>>)

\* null when the file cannot be read
BuildStickyFingerprint(file, bytes, runSalt) ==
    IF bytes = Unreadable THEN NullFp
    ELSE HashToHex(<<runSalt, file, HashToHex(bytes)>>)

\* ------------------------------------------------------------ sticky cache
NoEntry == [present |-> FALSE, fingerprint |-> NullFp, passCount |-> 0, skipCount |-> 0]
Entry(fp, pass, skip) ==
    [present |-> TRUE, fingerprint |-> fp, passCount |-> pass, skipCount |-> skip]
NoEntries == [p \in Paths |-> NoEntry]

\* emptyStickyPassCache().entries
EmptyStickyPassCache == NoEntries

AbsentFile == [state |-> "absent", version |-> 0, entries |-> NoEntries]
PayloadFile(entries) ==
    [state |-> "payload", version |-> STICKY_PASS_CACHE_VERSION, entries |-> entries]

\* the file after `if (reset && existsSync) rmSync(...)`; rmOk = FALSE is the catch branch
AfterReset(file, reset, rmOk) ==
    IF reset /\ file.state # "absent" /\ rmOk THEN AbsentFile ELSE file

\* a file that exists and cannot be read, and one that is not the JSON of an object
\* with an `entries` object
UnreadableFile == [state |-> "unreadable", version |-> 0, entries |-> NoEntries]
CorruptFile == [state |-> "corrupt", version |-> 0, entries |-> NoEntries]

\* an entry value the loop skips: not an object, or fingerprint not a string, or a
\* count not a number (here: "fingerprint": null)
MalformedEntry == [present |-> TRUE, fingerprint |-> NullFp, passCount |-> 0, skipCount |-> 0]
IsWellFormed(e) == e.present /\ e.fingerprint # NullFp

LoadedEntries_AllOrNothing(entries) ==
    IF \E p \in Paths : entries[p].present /\ ~IsWellFormed(entries[p])
    THEN NoEntries
    ELSE entries

\* for (const [filePath, entryValue] of Object.entries(rawEntries)) { ... }
LoadedEntries(entries) ==
    [p \in Paths |-> IF IsWellFormed(entries[p]) THEN entries[p] ELSE NoEntry]

\* loadStickyPassCache: the entries of the loaded payload
LoadStickyPassCache(file, reset, rmOk) ==
    LET f == AfterReset(file, reset, rmOk) IN
    IF f.state = "absent" THEN EmptyStickyPassCache
    ELSE IF f.state # "payload" \/ f.version # STICKY_PASS_CACHE_VERSION
         THEN EmptyStickyPassCache
    ELSE LoadedEntries(f.entries)

\* writeStickyPassCache: writeOk = FALSE is the catch branch (file left as it was)
WriteStickyPassCache(file, entries, writeOk) ==
    IF writeOk THEN PayloadFile(entries) ELSE file

\* ------------------------------------------------------------ results
\* A test result; error "" stands for undefined.
CachedResult_WithoutCounts(file, entry) ==
    [file |-> file, passed |-> TRUE, passCount |-> 0,
     failCount |-> 0, skipCount |-> 0, duration |-> 0,
     output |-> "sticky-pass cache hit", error |-> "", cached |-> TRUE]

CachedResult(file, entry) ==
    [file |-> file, passed |-> TRUE, passCount |-> Max(0, entry.passCount),
     failCount |-> 0, skipCount |-> Max(0, entry.skipCount), duration |-> 0,
     output |-> "sticky-pass cache hit", error |-> "", cached |-> TRUE]

CloseResult_IgnoringTimer(file, b) ==
    [file |-> file, passed |-> (b.code = 0),
     passCount |-> b.pass, failCount |-> b.fail, skipCount |-> b.skip,
     duration |-> b.duration, output |-> "child output",
     error |-> IF b.code # 0 THEN (IF b.stderr THEN "stderr" ELSE "Exit code") ELSE "",
     cached |-> FALSE]

\* proc.on('close'): b is what the child did (exit code, parsed counts, ...)
CloseResult(file, b) ==
    [file |-> file, passed |-> (b.code = 0 /\ ~b.timedOut),
     passCount |-> b.pass, failCount |-> b.fail, skipCount |-> b.skip,
     duration |-> b.duration, output |-> "child output",
     error |-> IF b.timedOut THEN "Test timed out"
               ELSE IF b.code # 0 THEN (IF b.stderr THEN "stderr" ELSE "Exit code")
               ELSE "",
     cached |-> FALSE]

\* proc.on('error'): the process could not be started
ErrorResult(file, b) ==
    [file |-> file, passed |-> FALSE, passCount |-> 0, failCount |-> 1, skipCount |-> 0,
     duration |-> b.duration, output |-> "", error |-> "spawn error", cached |-> FALSE]

RunTestFileResult(file, b) ==
    IF b.kind = "error" THEN ErrorResult(file, b) ELSE CloseResult(file, b)

\* What a child process can do, as far as the runner sees it.
Behaviour(kind, code, timedOut, pass, fail, skip, stderr, duration) ==
    [kind |-> kind, code |-> code, timedOut |-> timedOut, pass |-> pass, fail |-> fail,
     skip |-> skip, stderr |-> stderr, duration |-> duration]

Durations == 1..MaxDuration

Behaviours ==
    UNION { { Behaviour("close", 0, FALSE, 1, 0, 0, FALSE, d),
              Behaviour("close", 0, FALSE, 2, 0, 1, FALSE, d),
              Behaviour("close", 1, FALSE, 0, 1, 0, TRUE, d),
              Behaviour("close", -1, TRUE, 0, 0, 0, FALSE, d),
              Behaviour("error", -1, FALSE, 0, 0, 0, FALSE, d) } : d \in Durations }

\* ------------------------------------------------------------ runTestFile
\* One call of runTestFile.  call: the promise ("none", "pending", "resolved");
\* child: the process ("none", "running", "gone", "unstartable"); nature: what the
\* child does ("exits" on its own, "yields" to SIGTERM only, "stubborn": neither);
\* timer: the setTimeout of timeout + 5000 ms ("off", "armed", "fired", "cleared");
\* errorPending / closePending: events the child process object is about to emit;
\* exit: what the close handler will see; resolves: calls of resolve() so far.
NoExit == Behaviour("close", 0, FALSE, 0, 0, 0, FALSE, 1)
NoResult == [file |-> "", passed |-> FALSE, passCount |-> 0, failCount |-> 0, skipCount |-> 0,
             duration |-> 0, output |-> "", error |-> "", cached |-> FALSE]
NoProc ==
    [call |-> "none", file |-> "", child |-> "none", nature |-> "exits", signalled |-> FALSE,
     timer |-> "off", timedOut |-> FALSE, errorPending |-> FALSE, closePending |-> FALSE,
     exit |-> NoExit, result |-> NoResult, resolves |-> 0]

\* new Promise((resolve) => { spawn(...); setTimeout(...); proc.on(...) }); a child that
\* cannot be started emits 'error' and, if lateClose, 'close' after it
Spawned(file, nature, startable, lateClose) ==
    [NoProc EXCEPT !.call = "pending", !.file = file,
                   !.child = IF startable THEN "running" ELSE "unstartable",
                   !.nature = nature, !.timer = "armed",
                   !.errorPending = ~startable,
                   !.closePending = ~startable /\ lateClose,
                   !.exit = Behaviour("close", -1, FALSE, 0, 0, 0, FALSE, 1)]

\* the child may leave: on its own, or because it was sent SIGTERM and yields to it
MayExit(p) ==
    /\ p.child = "running"
    /\ p.nature = "exits" \/ (p.nature = "yields" /\ p.signalled)

\* the child has exited and its pipes are closed: 'close' is about to be emitted
Exit(p, b) == [p EXCEPT !.child = "gone", !.exit = b, !.closePending = TRUE]

\* setTimeout(() => { timedOut = true; proc.kill('SIGTERM') }, timeout + 5000)
OnTimeout(p) ==
    [p EXCEPT !.timer = "fired", !.timedOut = TRUE,
              !.signalled = @ \/ p.child = "running"]

\* clearTimeout(timeoutId)
ClearTimeout(p) == [p EXCEPT !.timer = IF @ = "armed" THEN "cleared" ELSE @]

Resolve_LastWins(p, result) ==
    [p EXCEPT !.call = "resolved", !.result = result, !.resolves = @ + 1]

\* resolve(result): only the first call settles the promise
Resolve(p, result) ==
    IF p.call = "pending"
    THEN [p EXCEPT !.call = "resolved", !.result = result, !.resolves = @ + 1]
    ELSE [p EXCEPT !.resolves = @ + 1]

\* proc.on('close', (code) => { clearTimeout(timeoutId); ...; resolve({...}) })
OnClose(p, duration) ==
    Resolve([ClearTimeout(p) EXCEPT !.closePending = FALSE],
            CloseResult(p.file, [p.exit EXCEPT !.timedOut = p.timedOut,
                                               !.duration = duration]))

\* proc.on('error', (err) => { clearTimeout(timeoutId); ...; resolve({...}) })
OnError(p, duration) ==
    Resolve([ClearTimeout(p) EXCEPT !.errorPending = FALSE],
            ErrorResult(p.file, [p.exit EXCEPT !.duration = duration]))

\* ------------------------------------------------------------ partition
\* for (const file of files) { ... }  of runIsolated, from index i on.
\* acc = [fp: stickyFingerprintByFile, cached: stickyCachedResults, runnable: runnableFiles]
RECURSIVE PartitionFrom(_, _, _, _, _, _)
PartitionFrom(i, fs, bytesOf, entries, runSalt, acc) ==
    IF i > Len(fs) THEN acc
    ELSE LET file == fs[i]
             fingerprint == BuildStickyFingerprint(file, bytesOf[file], runSalt)
             cachedEntry == entries[file]
         IN  IF fingerprint = NullFp
             THEN PartitionFrom(i + 1, fs, bytesOf, entries, runSalt,
                      [acc EXCEPT !.runnable = Append(@, file)])
             ELSE IF cachedEntry.present /\ cachedEntry.fingerprint = fingerprint
             THEN PartitionFrom(i + 1, fs, bytesOf, entries, runSalt,
                      [acc EXCEPT !.fp[file] = fingerprint,
                                  !.cached = Append(@, CachedResult(file, cachedEntry))])
             ELSE PartitionFrom(i + 1, fs, bytesOf, entries, runSalt,
                      [acc EXCEPT !.fp[file] = fingerprint,
                                  !.runnable = Append(@, file)])

NoFingerprints == [p \in Paths |-> NullFp]

Partition_ByPathOnly(fs, enabled, bytesOf, entries, runSalt) ==
    LET hits == SelectSeq(fs, LAMBDA f : entries[f].present)
    IN  [fp |-> [p \in Paths |-> BuildStickyFingerprint(p, bytesOf[p], runSalt)],
         cached |-> [i \in 1..Len(hits) |-> CachedResult(hits[i], entries[hits[i]])],
         runnable |-> SelectSeq(fs, LAMBDA f : ~entries[f].present)]

\* the sticky partition; with the cache disabled every file is runnable
Partition(fs, enabled, bytesOf, entries, runSalt) ==
    IF enabled
    THEN PartitionFrom(1, fs, bytesOf, entries, runSalt,
             [fp |-> NoFingerprints, cached |-> <<>>, runnable |-> <<>>])
    ELSE [fp |-> NoFingerprints, cached |-> <<>>, runnable |-> fs]

\* ------------------------------------------------------------ commit
\* for (const result of runResults) { upsert on pass, delete on fail }
RECURSIVE CommitFrom(_, _, _, _)
CommitFrom(i, results, fpByFile, entries) ==
    IF i > Len(results) THEN entries
    ELSE LET result == results[i]
             fingerprint == fpByFile[result.file]
         IN  IF fingerprint = NullFp
             THEN CommitFrom(i + 1, results, fpByFile, entries)
             ELSE IF result.passed
             THEN CommitFrom(i + 1, results, fpByFile,
                      [entries EXCEPT ![result.file] =
                          Entry(fingerprint, Max(0, result.passCount), Max(0, result.skipCount))])
             ELSE CommitFrom(i + 1, results, fpByFile,
                      [entries EXCEPT ![result.file] = NoEntry])

Commit_FromEmptyPayload(results, fpByFile, entries) ==
    CommitFrom(1, results, fpByFile, NoEntries)

Commit(results, fpByFile, entries) == CommitFrom(1, results, fpByFile, entries)

\* ------------------------------------------------------------ worker pool
Workers == 1..MaxParallel
NotStarted == [st |-> "none", file |-> "", bytes |-> Unreadable]
Exited == [st |-> "exited", file |-> "", bytes |-> Unreadable]
\* an in-flight child; bytes is the content of the file the child was spawned on
Running(file, bytes) == [st |-> "running", file |-> file, bytes |-> bytes]

\* the locals of one runParallel call
NewPool(fs) ==
    [queue |-> fs, results |-> <<>>, completed |-> 0, failures |-> 0,
     stopLogged |-> FALSE, stopLines |-> 0, workers |-> [w \in Workers |-> NotStarted]]

RunNext_IgnoringBudget(pool, w, maxFailures, bytesOf) ==
    IF Len(pool.queue) > 0
    THEN [pool EXCEPT !.queue = Tail(@),
                      !.workers[w] = Running(Head(pool.queue), bytesOf[Head(pool.queue)])]
    ELSE [pool EXCEPT !.workers[w] = Exited]

\* the head of runNext's loop, run by worker w up to its next await (or its return)
RunNext(pool, w, maxFailures, bytesOf) ==
    IF Len(pool.queue) > 0 /\ CanContinue(pool.failures, maxFailures)
    THEN LET file == Head(pool.queue)
         IN  [pool EXCEPT !.queue = Tail(@), !.workers[w] = Running(file, bytesOf[file])]
    ELSE [pool EXCEPT !.workers[w] = Exited]

StartWorkers_SharingHead(pool, i, count, maxFailures, bytesOf) ==
    IF count < 1 \/ Len(pool.queue) = 0 THEN pool
    ELSE [pool EXCEPT !.queue = Tail(@),
                      !.workers = [w \in Workers |->
                                      IF w <= count
                                      THEN Running(Head(pool.queue), bytesOf[Head(pool.queue)])
                                      ELSE NotStarted]]

\* for (i < Math.min(concurrency, files.length)) workers.push(runNext())
RECURSIVE StartWorkers(_, _, _, _, _)
StartWorkers(pool, i, count, maxFailures, bytesOf) ==
    IF i > count THEN pool
    ELSE StartWorkers(RunNext(pool, i, maxFailures, bytesOf), i + 1, count, maxFailures, bytesOf)

\* runParallel up to `await Promise.all(workers)`
RunParallel(fs, concurrency, maxFailures, bytesOf) ==
    StartWorkers(NewPool(fs), 1, WorkerCount(concurrency, Len(fs)), maxFailures, bytesOf)

Resume_LosingResult(pool, w, result, maxFailures, bytesOf) ==
    RunNext(pool, w, maxFailures, bytesOf)

Record_CountingEveryResult(pool, result) ==
    [pool EXCEPT !.results = Append(@, result), !.completed = @ + 1, !.failures = @ + 1]

\* results.push(result); completed++; if (!result.passed) failures++
Record(pool, result) ==
    [pool EXCEPT !.results = Append(@, result),
                 !.completed = @ + 1,
                 !.failures = IF result.passed THEN @ ELSE @ + 1]

LogStop_Repeating(pool, maxFailures) ==
    IF ~CanContinue(pool.failures, maxFailures)
    THEN [pool EXCEPT !.stopLogged = TRUE, !.stopLines = @ + 1]
    ELSE pool

\* if (!stopLogged && !canContinue()) { stopLogged = true; console.log(...) };
\* stopLines counts the 'Reached max failures' lines this pass has printed
LogStop(pool, maxFailures) ==
    IF ~pool.stopLogged /\ ~CanContinue(pool.failures, maxFailures)
    THEN [pool EXCEPT !.stopLogged = TRUE, !.stopLines = @ + 1]
    ELSE pool

\* runNext resumed after `await runTestFile`: record the result, then loop
Resume(pool, w, result, maxFailures, bytesOf) ==
    RunNext(LogStop(Record(pool, result), maxFailures), w, maxFailures, bytesOf)

AllSettled_NotWaiting(pool) == TRUE

\* Promise.all(workers) has resolved
AllSettled(pool) == \A w \in Workers : pool.workers[w].st # "running"

\* ------------------------------------------------------------ retry
IndexOfFile_Head(results, file) == IF results = <<>> THEN 0 ELSE 1

\* runResults.findIndex((r) => r.file === retry.file), 0 for -1
IndexOfFile(results, file) ==
    IF \E i \in 1..Len(results) : results[i].file = file
    THEN CHOOSE i \in 1..Len(results) :
             results[i].file = file /\ \A j \in 1..(i - 1) : results[j].file # file
    ELSE 0

\* for (const retry of retryResults) { idx = findIndex(...); if (idx >= 0) runResults[idx] = retry }
RECURSIVE ReplaceFrom(_, _, _)
ReplaceFrom(i, retryResults, results) ==
    IF i > Len(retryResults) THEN results
    ELSE LET retry == retryResults[i]
             idx == IndexOfFile(results, retry.file)
         IN  ReplaceFrom(i + 1, retryResults,
                 IF idx > 0 THEN [results EXCEPT ![idx] = retry] ELSE results)

ReplaceRetried_Appending(retryResults, results) == results \o retryResults

ReplaceRetried(retryResults, results) == ReplaceFrom(1, retryResults, results)

Failed_Everything(results) == results

Failed(results) == SelectSeq(results, LAMBDA r : ~r.passed)
FilesOf(results) == [i \in 1..Len(results) |-> results[i].file]

RetryFiles_FirstOnly(failed) == <<failed[1].file>>

\* failed.map((r) => r.file): the units the retry pass is called with
RetryFiles(failed) == FilesOf(failed)

\* ------------------------------------------------------------ totals and telemetry
RECURSIVE SumOver(_, _, _)
SumOver(results, i, field) ==
    IF i > Len(results) THEN 0
    ELSE (CASE field = "pass" -> results[i].passCount
            [] field = "fail" -> results[i].failCount
            [] OTHER -> results[i].skipCount) + SumOver(results, i + 1, field)

RECURSIVE Insert(_, _)
Insert(sorted, v) ==
    IF sorted = <<>> THEN <<v>>
    ELSE IF v <= Head(sorted) THEN <<v>> \o sorted
    ELSE <<Head(sorted)>> \o Insert(Tail(sorted), v)

RECURSIVE SortAscending(_)
SortAscending(values) ==
    IF values = <<>> THEN <<>> ELSE Insert(SortAscending(Tail(values)), Head(values))

CeilDiv(a, b) == (a + b - 1) \div b

CalculatePercentile_Floor(values, pct) ==
    IF Len(values) = 0 THEN 0
    ELSE LET sorted == SortAscending(values)
             clamped == Max(0, Min(100, pct))
             index == Max(0, Min(Len(sorted) - 1, (clamped * Len(sorted)) \div 100))
         IN  sorted[index + 1]

\* calculatePercentile(values, percentile); the percentile is given in hundredths
CalculatePercentile(values, pct) ==
    IF Len(values) = 0 THEN 0
    ELSE LET sorted == SortAscending(values)
             clamped == Max(0, Min(100, pct))
             index == Max(0, Min(Len(sorted) - 1, CeilDiv(clamped * Len(sorted), 100) - 1))
         IN  sorted[index + 1]

FilesPerSecond_PerMillisecond(executedFiles, elapsedMs) ==
    IF elapsedMs > 0
    THEN (2 * executedFiles * 100 + elapsedMs) \div (2 * elapsedMs)
    ELSE 0

\* Number(((executedFiles * 1000) / elapsedMs).toFixed(2)), in hundredths; toFixed rounds
\* to the nearest hundredth (a tie, possible only when elapsedMs is a multiple of 64, is
\* taken upwards here)
FilesPerSecond(executedFiles, elapsedMs) ==
    IF elapsedMs > 0
    THEN (2 * executedFiles * 100000 + elapsedMs) \div (2 * elapsedMs)
    ELSE 0

Executed_CountingCached(results) == results

Executed(results) == SelectSeq(results, LAMBDA r : ~r.cached)
DurationsOf(results) == [i \in 1..Len(results) |-> results[i].duration]

BuildTelemetrySummary(discoveredFiles, results, elapsedMs, parallel, retries, maxFailures, stickyPassEnabled) ==
    LET executedFiles == Len(Executed(results))
        perFileDurations == DurationsOf(Executed(results))
    IN  [discoveredFiles |-> discoveredFiles,
         executedFiles |-> executedFiles,
         stickyHits |-> Len(results) - executedFiles,
         passCount |-> SumOver(results, 1, "pass"),
         failCount |-> SumOver(results, 1, "fail"),
         skipCount |-> SumOver(results, 1, "skip"),
         failedFiles |-> Len(Failed(results)),
         durationMs |-> elapsedMs,
         filesPerSecond |-> FilesPerSecond(executedFiles, elapsedMs),
         p50Ms |-> CalculatePercentile(perFileDurations, 50),
         p95Ms |-> CalculatePercentile(perFileDurations, 95),
         config |-> [parallel |-> parallel, retries |-> retries,
                     maxFailures |-> IF IsFinite(maxFailures) THEN maxFailures.n ELSE -1,
                     stickyPassEnabled |-> stickyPassEnabled]]

WriteTelemetry_Overwriting(log, payload, writeOk) == IF writeOk THEN <<payload>> ELSE log

\* writeTelemetry: appendFileSync of one line; writeOk = FALSE is the catch branch
WriteTelemetry(log, payload, writeOk) == IF writeOk THEN Append(log, payload) ELSE log

RunSummary_WithoutResults(fs, results, elapsedMs) ==
    [passed |-> 0, failed |-> 0, skipped |-> 0, totalTests |-> 0, duration |-> elapsedMs,
     results |-> <<>>, stoppedEarly |-> 0 < Len(fs)]

\* the RunResults that runIsolated returns
RunSummary(fs, results, elapsedMs) ==
    [passed |-> SumOver(results, 1, "pass"),
     failed |-> SumOver(results, 1, "fail"),
     skipped |-> SumOver(results, 1, "skip"),
     totalTests |-> SumOver(results, 1, "pass") + SumOver(results, 1, "fail")
                    + SumOver(results, 1, "skip"),
     duration |-> elapsedMs,
     results |-> results,
     stoppedEarly |-> Len(results) < Len(fs)]

NoSummary == RunSummary(<<>>, <<>>, 0)

\* ------------------------------------------------------------------ state
VARIABLES
    fileContent,              \* the test files on disk: path -> bytes (Unreadable = cannot be read)
    bunVersion,               \* process.versions.bun
    preloadContent,           \* bytes of the preload script (Unreadable = none)
    cacheFile,                \* the persisted sticky-pass cache
    telemetryLog,             \* the JSONL telemetry log, one record per line
    pc,                       \* "idle" | "first" | "retry": where runIsolated is
    runs,                     \* completed calls of runIsolated
    files,                    \* runIsolated's argument
    cfg,                      \* runIsolated's options, defaults applied
    runSalt,                  \* runSalt of this run (NullFp when the cache is off)
    startBytes,               \* the bytes of each file when this run fingerprinted it
    stickyCache,              \* stickyCache.entries
    stickyFingerprintByFile,
    stickyCachedResults,
    runnableFiles,
    runResults,               \* the first pass' results, while the retry pass runs
    pool,                     \* the locals of the runParallel call in progress
    ret,                      \* what the last completed runIsolated returned
    cacheWritten,             \* whether that run wrote the cache file
    passedExec,               \* every <<file, bytes, salt>> a child ran and passed with
    argv,                     \* the arguments of the command line, <<>> for a library call
    telemetryRuns,            \* completed runs on this telemetry log: enabled, appended
    cacheOps,                 \* calls of loadStickyPassCache / writeStickyPassCache in this run
    proc                      \* one call of runTestFile: its child, timer, handlers and promise

vars == <<fileContent, bunVersion, preloadContent, cacheFile, telemetryLog, pc, runs, files,
          cfg, runSalt, startBytes, stickyCache, stickyFingerprintByFile,
          stickyCachedResults, runnableFiles, runResults, pool, ret, cacheWritten, passedExec,
          argv, telemetryRuns, cacheOps, proc>>

env == <<fileContent, bunVersion, preloadContent>>
locals == <<files, cfg, runSalt, startBytes, stickyCache, stickyFingerprintByFile, stickyCachedResults,
            runnableFiles, cacheOps, proc>>

DefaultCfg ==
    [parallel |-> 1, retries |-> 0, bail |-> FALSE, maxFailures |-> UNDEFINED,
     telemetryEnabled |-> TRUE, stickyPassEnabled |-> FALSE, stickyPassReset |-> FALSE,
     timeout |-> DefaultTimeout]

NoBytes == [p \in Paths |-> Unreadable]

\* one more run has completed on the telemetry log
Completed(count, enabled, writeOk) ==
    [enabled |-> count.enabled + (IF enabled THEN 1 ELSE 0),
     appended |-> count.appended + (IF enabled /\ writeOk THEN 1 ELSE 0)]

\* the salt of the environment a child runs in
EnvSalt == BuildStickyRunSalt(bunVersion, preloadContent, cfg.timeout)

PassMaxFailures_Unbounded == INF

\* the maxFailures argument of the runParallel call in progress
PassMaxFailures ==
    IF pc = "first" THEN ResolvedMaxFailures(cfg.bail, cfg.maxFailures) ELSE INF

\* ------------------------------------------------------------------ actions
\* runIsolated from its call to the first `await` inside runParallel
Call(fs, c, rmOk) ==
    /\ pc = "idle"
    /\ LET enabled == c.stickyPassEnabled
           entries == IF enabled
                      THEN LoadStickyPassCache(cacheFile, c.stickyPassReset, rmOk)
                      ELSE EmptyStickyPassCache
           salt == BuildStickyRunSalt(bunVersion, preloadContent, c.timeout)
           part == Partition(fs, enabled, fileContent, entries, salt)
       IN  /\ cacheFile' = IF enabled
                           THEN AfterReset(cacheFile, c.stickyPassReset, rmOk)
                           ELSE cacheFile
           /\ files' = fs
           /\ cfg' = c
           /\ runSalt' = IF enabled THEN salt ELSE NullFp
           /\ stickyCache' = entries
           /\ stickyFingerprintByFile' = part.fp
           /\ stickyCachedResults' = part.cached
           /\ runnableFiles' = part.runnable
           /\ runResults' = <<>>
           /\ pool' = RunParallel(part.runnable, c.parallel,
                                  ResolvedMaxFailures(c.bail, c.maxFailures), fileContent)
           /\ pc' = "first"
           /\ startBytes' = fileContent
           /\ ret' = NoSummary
           /\ cacheWritten' = FALSE
           /\ cacheOps' = [loads |-> IF enabled THEN 1 ELSE 0, writes |-> 0]
    /\ UNCHANGED <<env, telemetryLog, runs, passedExec, telemetryRuns, proc>>

\* a caller of the library calls runIsolated
StartRun(fs, c, rmOk) == Call(fs, c, rmOk) /\ UNCHANGED argv

\* the child of worker w closed, or could not be spawned; runNext resumes
Complete(w, b) ==
    /\ pc \in {"first", "retry"}
    /\ pool.workers[w].st = "running"
    /\ LET file == pool.workers[w].file
           result == RunTestFileResult(file, b)
       IN  /\ pool' = Resume(pool, w, result, PassMaxFailures, fileContent)
           /\ passedExec' = IF result.passed
                            THEN passedExec \cup {<<file, pool.workers[w].bytes, EnvSalt>>}
                            ELSE passedExec
    /\ UNCHANGED <<env, cacheFile, telemetryLog, pc, runs, locals, runResults, ret, cacheWritten,
                   argv, telemetryRuns>>

\* runIsolated from the sticky commit to its return; io are the outcomes of its I/O
Finish(finalResults, io) ==
    LET enabled == cfg.stickyPassEnabled
        entries == IF enabled
                   THEN Commit(finalResults, stickyFingerprintByFile, stickyCache)
                   ELSE stickyCache
        results == stickyCachedResults \o finalResults
        telemetry == BuildTelemetrySummary(Len(files), results, io.elapsedMs, cfg.parallel,
                         cfg.retries, ResolvedMaxFailures(cfg.bail, cfg.maxFailures), enabled)
        summary == RunSummary(files, results, io.elapsedMs)
    IN  /\ cacheFile' = IF enabled
                        THEN WriteStickyPassCache(cacheFile, entries, io.cacheWriteOk)
                        ELSE cacheFile
        /\ telemetryLog' = IF cfg.telemetryEnabled
                           THEN WriteTelemetry(telemetryLog, telemetry, io.telemetryWriteOk)
                           ELSE telemetryLog
        /\ telemetryRuns' = Completed(telemetryRuns, cfg.telemetryEnabled, io.telemetryWriteOk)
        /\ ret' = summary
        /\ cacheWritten' = (enabled /\ io.cacheWriteOk)
        /\ cacheOps' = IF enabled THEN [cacheOps EXCEPT !.writes = @ + 1] ELSE cacheOps
        /\ stickyCache' = entries
        /\ runResults' = finalResults
        /\ pool' = NewPool(<<>>)
        /\ pc' = "idle"
        /\ runs' = runs + 1
        /\ UNCHANGED <<env, files, cfg, runSalt, startBytes, stickyFingerprintByFile,
                       stickyCachedResults, runnableFiles, passedExec, argv, proc>>

EndFirstPass_RetryingEveryUnit(io) ==
    /\ pc = "first"
    /\ AllSettled(pool)
    /\ LET failed == Failed(pool.results)
       IN  IF cfg.retries > 0 /\ Len(failed) > 0
           THEN /\ pool' = RunParallel(runnableFiles, cfg.parallel, INF, fileContent)
                /\ runResults' = pool.results
                /\ pc' = "retry"
                /\ UNCHANGED <<env, cacheFile, telemetryLog, runs, locals, ret, cacheWritten,
                               passedExec, argv, telemetryRuns>>
           ELSE Finish(pool.results, io)

\* `await runParallel(...)` of the first pass resumed: start the retry pass, or finish
EndFirstPass(io) ==
    /\ pc = "first"
    /\ AllSettled(pool)
    /\ LET failed == Failed(pool.results)
       IN  IF cfg.retries > 0 /\ Len(failed) > 0
           THEN /\ pool' = RunParallel(RetryFiles(failed), cfg.parallel, INF, fileContent)
                /\ runResults' = pool.results
                /\ pc' = "retry"
                /\ UNCHANGED <<env, cacheFile, telemetryLog, runs, locals, ret, cacheWritten,
                               passedExec, argv, telemetryRuns>>
           ELSE Finish(pool.results, io)

\* `await runParallel(...)` of the retry pass resumed: replace the retried results, finish
EndRetryPass(io) ==
    /\ pc = "retry"
    /\ AllSettled(pool)
    /\ Finish(ReplaceRetried(pool.results, runResults), io)

\* somebody edits, deletes or restores a test file
EditFile(p, bytes) ==
    /\ fileContent[p] # bytes
    /\ fileContent' = [fileContent EXCEPT ![p] = bytes]
    /\ UNCHANGED <<bunVersion, preloadContent, cacheFile, telemetryLog, pc, runs, locals,
                   runResults, pool, ret, cacheWritten, passedExec, argv, telemetryRuns>>

\* the tool is upgraded or downgraded: process.versions.bun of the next run
UpgradeTool(v) ==
    /\ bunVersion # v
    /\ bunVersion' = v
    /\ UNCHANGED <<fileContent, preloadContent, cacheFile, telemetryLog, pc, runs, locals,
                   runResults, pool, ret, cacheWritten, passedExec, argv, telemetryRuns>>

\* somebody edits, deletes or creates the preload script
EditPreload(bytes) ==
    /\ preloadContent # bytes
    /\ preloadContent' = bytes
    /\ UNCHANGED <<fileContent, bunVersion, cacheFile, telemetryLog, pc, runs, locals,
                   runResults, pool, ret, cacheWritten, passedExec, argv, telemetryRuns>>

\* everything but proc
runState == <<env, cacheFile, telemetryLog, pc, runs, files, cfg, runSalt, startBytes,
              stickyCache, stickyFingerprintByFile, stickyCachedResults, runnableFiles,
              cacheOps, runResults, pool, ret, cacheWritten, passedExec, argv, telemetryRuns>>

\* runTestFile is called: the child is spawned (or cannot be) and the timer is armed
Spawn(file, nature, startable, lateClose) ==
    /\ proc.call = "none"
    /\ proc' = Spawned(file, nature, startable, lateClose)
    /\ UNCHANGED runState

\* the child exits with what it printed and its exit code (-1: killed by a signal)
ChildExits(b) ==
    /\ MayExit(proc)
    /\ proc' = Exit(proc, b)
    /\ UNCHANGED runState

\* timeout + 5000 ms have passed (a spawn error is emitted on the next tick, before
\* any timer)
TimerFires ==
    /\ proc.timer = "armed"
    /\ ~proc.errorPending
    /\ proc' = OnTimeout(proc)
    /\ UNCHANGED runState

\* the 'close' event is delivered (after the 'error' event, when there is one)
CloseEvent(duration) ==
    /\ proc.closePending
    /\ ~proc.errorPending
    /\ proc' = OnClose(proc, duration)
    /\ UNCHANGED runState

\* the 'error' event is delivered
ErrorEvent(duration) ==
    /\ proc.errorPending
    /\ proc' = OnError(proc, duration)
    /\ UNCHANGED runState

\* another invocation of runIsolated on the same telemetry log, interleaved with this
\* one, reaches `if (telemetryEnabled) writeTelemetry(...)` with its record
ConcurrentRunEnds(enabled, record, writeOk) ==
    /\ telemetryLog' = IF enabled THEN WriteTelemetry(telemetryLog, record, writeOk)
                       ELSE telemetryLog
    /\ telemetryRuns' = Completed(telemetryRuns, enabled, writeOk)
    /\ UNCHANGED <<env, cacheFile, pc, runs, locals, runResults, pool, ret, cacheWritten,
                   passedExec, argv>>

\* ------------------------------------------------------------------ command line
\* An argument: an option (with the number after its `=`, if any) or a test file path.
Arg(name, n) == [name |-> name, n |-> n]
FileArg(path) == Arg(path, 0)

\* arg.endsWith('.test.ts') and the like
EndsWithTestSuffix(arg) == arg.name \in Paths
\* arg.startsWith('-')
StartsWithDash(arg) == arg.name \notin Paths

GetOptimalParallelCount(cpuCount) == Min(4, Max(1, cpuCount \div 2))

\* parseInt(process.env['JOBS'] || '', 10) || getOptimalParallelCount(); jobs = 0 stands
\* for JOBS unset, empty, not a number or 0
DefaultParallel(jobs, cpuCount) == IF jobs = 0 THEN GetOptimalParallelCount(cpuCount) ELSE jobs

Parsed(parallel, timeout) ==
    [mode |-> "all", specificFiles |-> <<>>, parallel |-> parallel, timeout |-> timeout,
     retries |-> 0]

\* the argument loop of main from index i on (of the options of the help text those
\* without effect on the run, --preload, --exclude, --changed and --timeout, are not drawn)
RECURSIVE ParseArgsFrom(_, _, _)
ParseArgsFrom(i, args, acc) ==
    IF i > Len(args) THEN acc
    ELSE LET arg == args[i]
         IN  IF arg.name = "--files"
             THEN [acc EXCEPT !.mode = "files",
                              !.specificFiles =
                                  SelectSeq(SubSeq(args, i + 1, Len(args)),
                                            LAMBDA a : ~StartsWithDash(a))]
             ELSE IF arg.name = "--parallel="
             THEN ParseArgsFrom(i + 1, args, [acc EXCEPT !.parallel = arg.n])
             ELSE IF arg.name = "--retries="
             THEN ParseArgsFrom(i + 1, args, [acc EXCEPT !.retries = arg.n])
             ELSE IF EndsWithTestSuffix(arg)
             THEN ParseArgsFrom(i + 1, args,
                      [acc EXCEPT !.mode = "files", !.specificFiles = Append(@, arg)])
             ELSE ParseArgsFrom(i + 1, args, acc)

ParseArgs(args, jobs, cpuCount) ==
    ParseArgsFrom(1, args, Parsed(DefaultParallel(jobs, cpuCount), DefaultTimeout))

\* the files main runs; found is what findTestFiles discovers
MainFiles(parsed, found) ==
    IF parsed.mode = "files" /\ Len(parsed.specificFiles) > 0
    THEN [i \in 1..Len(parsed.specificFiles) |-> parsed.specificFiles[i].name]
    ELSE found

\* the config main passes, with the defaults runIsolated applies to it; stickyEnv is
\* BUN_ISOLATED_STICKY
MainConfig(parsed, stickyEnv) ==
    [parallel |-> parsed.parallel, retries |-> parsed.retries, bail |-> FALSE,
     maxFailures |-> UNDEFINED, telemetryEnabled |-> TRUE, stickyPassEnabled |-> stickyEnv,
     stickyPassReset |-> FALSE, timeout |-> parsed.timeout]

\* process.exit(results.failed > 0 ? 1 : 0)
MainExitCode(results) == IF results.failed > 0 THEN 1 ELSE 0

\* main from the start of the process to the first `await` inside runParallel, or to
\* process.exit(0) when there is no file to run
Main(args, jobs, cpuCount, stickyEnv, found) ==
    LET parsed == ParseArgs(args, jobs, cpuCount)
        fs == MainFiles(parsed, found)
    IN  /\ pc = "idle"
        /\ argv' = args
        /\ IF Len(fs) = 0
           THEN UNCHANGED <<env, cacheFile, telemetryLog, pc, runs, locals, runResults, pool,
                            ret, cacheWritten, passedExec, telemetryRuns>>
           ELSE Call(fs, MainConfig(parsed, stickyEnv), TRUE)

\* ------------------------------------------------------------------ inputs
FileLists(n) == UNION { [1..k -> Paths] : k \in 0..n }

MaxFailuresValues == {UNDEFINED, INF} \cup { NUM(n) : n \in -1..MaxMaxFailures }

Configs(parallels, retries, bails, maxFailures, telemetry, sticky, resets, timeouts) ==
    [parallel : parallels, retries : retries, bail : bails, maxFailures : maxFailures,
     telemetryEnabled : telemetry, stickyPassEnabled : sticky, stickyPassReset : resets,
     timeout : timeouts]

IO(cacheWrites, elapsed, telemetryWrites) ==
    [cacheWriteOk : cacheWrites, elapsedMs : elapsed, telemetryWriteOk : telemetryWrites]

Salt0 == BuildStickyRunSalt(1, Unreadable, DefaultTimeout)

\* cache files that earlier runs can have left: for each path no entry, or the entry of
\* a pass of some content
EntryChoices(p) ==
    {NoEntry} \cup { Entry(BuildStickyFingerprint(p, c, Salt0), 1, 0) : c \in Contents }

EarlierEntries ==
    { e \in [Paths -> UNION { EntryChoices(p) : p \in Paths }] :
        \A p \in Paths : e[p] \in EntryChoices(p) }

EarlierCacheFiles == {AbsentFile} \cup { PayloadFile(e) : e \in EarlierEntries }

\* the passes that left these entries
PassesOf(entries) ==
    { t \in Paths \X Contents \X {Salt0} :
        /\ entries[t[1]].present
        /\ entries[t[1]].fingerprint = BuildStickyFingerprint(t[1], t[2], Salt0) }

InitWith(contents, cacheFiles) ==
    /\ fileContent \in [Paths -> contents]
    /\ bunVersion = 1
    /\ preloadContent = Unreadable
    /\ cacheFile \in cacheFiles
    /\ telemetryLog = <<>>
    /\ pc = "idle"
    /\ runs = 0
    /\ files = <<>>
    /\ cfg = DefaultCfg
    /\ runSalt = NullFp
    /\ startBytes = NoBytes
    /\ stickyCache = NoEntries
    /\ stickyFingerprintByFile = NoFingerprints
    /\ stickyCachedResults = <<>>
    /\ runnableFiles = <<>>
    /\ runResults = <<>>
    /\ pool = NewPool(<<>>)
    /\ ret = NoSummary
    /\ cacheWritten = FALSE
    /\ passedExec = PassesOf(cacheFile.entries)
    /\ argv = <<>>
    /\ telemetryRuns = [enabled |-> 0, appended |-> 0]
    /\ cacheOps = [loads |-> 0, writes |-> 0]
    /\ proc = NoProc

\* ------------------------------------------------------------------ the scheduler
\* One run with the sticky cache off: every budget and every requested concurrency.
SchedConfigs ==
    Configs(-1..MaxParallel, 0..1, BOOLEAN, MaxFailuresValues, {TRUE}, {FALSE}, {FALSE},
            {DefaultTimeout})

SchedBehaviours == { b \in Behaviours : b.duration = 1 /\ b.pass < 2 }
SchedIO == IO({TRUE}, {1000}, {TRUE})

Idle(maxRuns) == pc = "idle" /\ runs < maxRuns
InPass == pc \in {"first", "retry"}
Settled == InPass /\ AllSettled(pool)

Init == InitWith({1}, {AbsentFile})

Next ==
    \/ Idle(1) /\ \E fs \in FileLists(MaxFiles), c \in SchedConfigs : StartRun(fs, c, TRUE)
    \/ InPass /\ \E w \in Workers, b \in SchedBehaviours : Complete(w, b)
    \/ Settled /\ \E io \in SchedIO : EndFirstPass(io)
    \/ Settled /\ \E io \in SchedIO : EndRetryPass(io)

Spec == Init /\ [][Next]_vars

\* ------------------------------------------------------------------ claims
Budget == ResolvedMaxFailures(cfg.bail, cfg.maxFailures)
Returned == pc = "idle" /\ runs > 0
FirstPassOver == pc = "first" /\ AllSettled(pool)
IsPrefix(s, t) == Len(s) <= Len(t) /\ \A i \in 1..Len(s) : s[i] = t[i]
AnyRunning == \E w \in Workers : pool.workers[w].st = "running"

\* C1: a run with bail = false and maxFailures unset returns one result per input unit
\* and stoppedEarly = false, for every unit list, requested concurrency and outcome.
C1_AllUnitsReported ==
    (Returned /\ ~cfg.bail /\ cfg.maxFailures = UNDEFINED)
        => (Len(ret.results) = Len(files) /\ ~ret.stoppedEarly)

\* C2: stoppedEarly is true iff the result list is shorter than the input list, and then
\* the failure counter reached the budget while units were still pending in the queue.
C2_StoppedEarlyOnlyByBudget ==
    /\ Returned => (ret.stoppedEarly <=> Len(ret.results) < Len(files))
    /\ (FirstPassOver /\ Len(stickyCachedResults) + Len(pool.results) < Len(files))
           => (~CanContinue(pool.failures, Budget) /\ Len(pool.queue) > 0)

\* C4: bail = true gives the budget of maxFailures = 1 whatever maxFailures says, and
\* with concurrency 1 both kinds of run stop scheduling after exactly one failed unit:
\* the results are the runnable units in order up to and including the first failure.
BailOrOne == cfg.bail \/ cfg.maxFailures = NUM(1)
C4_BailIsMaxFailuresOne ==
    (pc = "first" /\ BailOrOne) =>
        /\ Budget = ResolvedMaxFailures(FALSE, NUM(1))
        /\ Budget = NUM(1)
        /\ cfg.parallel = 1 =>
              /\ pool.failures <= 1
              /\ IsPrefix(FilesOf(pool.results), runnableFiles)
              /\ \A i \in 1..(Len(pool.results) - 1) : pool.results[i].passed
              /\ pool.failures = 1 => (~AnyRunning /\ ~pool.results[Len(pool.results)].passed)
              /\ (FirstPassOver /\ pool.failures = 0) => Len(pool.results) = Len(runnableFiles)

C4_Witness ==
    /\ FirstPassOver /\ cfg.bail /\ cfg.maxFailures = NUM(2) /\ cfg.parallel = 1
    /\ pool.failures = 1 /\ Len(pool.queue) > 0 /\ Len(pool.results) = 2

\* C5: with bail = false every finite maxFailures, 0 and negative values included, gives
\* the budget max(1, maxFailures); the budget is unbounded only when maxFailures is unset
\* or not finite.
C5_BudgetIsAtLeastOne ==
    (pc = "first" /\ ~cfg.bail) =>
        Budget = IF cfg.maxFailures.t = "number" THEN NUM(Max(1, cfg.maxFailures.n)) ELSE INF

\* C6: for a non-empty unit list at least one worker starts even when the requested
\* concurrency is 0 or negative, so no unit is left pending with no worker running while
\* the budget allows it to run.
C6_ConcurrencyFloor ==
    (pc = "first" /\ Len(pool.queue) > 0 /\ CanContinue(pool.failures, Budget)) => AnyRunning

\* ------------------------------------------------------------------ one worker
\* One run with a single worker and a finite budget, the sticky cache on or off, over
\* the cache files earlier runs can have left.
SeqConfigs ==
    Configs({1}, 0..1, BOOLEAN, {NUM(1), NUM(2)}, {TRUE}, BOOLEAN, {FALSE}, {DefaultTimeout})

InitSeq == InitWith({1}, EarlierCacheFiles)

NextSeq ==
    \/ Idle(1) /\ \E fs \in FileLists(MaxFiles), c \in SeqConfigs : StartRun(fs, c, TRUE)
    \/ InPass /\ \E w \in Workers, b \in SchedBehaviours : Complete(w, b)
    \/ Settled /\ \E io \in SchedIO : EndFirstPass(io)
    \/ Settled /\ \E io \in SchedIO : EndRetryPass(io)

SpecSeq == InitSeq /\ [][NextSeq]_vars

NumFailed(results) == Len(Failed(results))

\* the list `results` is the prefix of `units` that ends with the b-th failed result,
\* or all of `units` when fewer than b results failed
PrefixThroughFailure(results, units, b) ==
    /\ IsPrefix(FilesOf(results), units)
    /\ NumFailed(results) <= b
    /\ NumFailed(results) = b => ~results[Len(results)].passed
    /\ NumFailed(results) < b => Len(results) = Len(units)

\* C3, as stated: with concurrency 1 and a finite budget B the result list is the input
\* prefix that ends with the B-th failing unit (the whole input if fewer than B fail); for
\* [failing, passing] with maxFailures = 1 the run returns exactly one result, the failing
\* unit's, and stoppedEarly is true.
C3_ResultsAreInputPrefix ==
    /\ (FirstPassOver /\ cfg.parallel = 1 /\ Budget.t = "number")
          => PrefixThroughFailure(stickyCachedResults \o pool.results, files, Budget.n)
    /\ (Returned /\ cfg.parallel = 1 /\ cfg.retries = 0 /\ Len(files) = 2
          /\ ResolvedMaxFailures(cfg.bail, cfg.maxFailures) = NUM(1)
          /\ \E i \in 1..Len(ret.results) :
                 ret.results[i].file = files[1] /\ ~ret.results[i].passed)
          => (Len(ret.results) = 1 /\ ret.results[1].file = files[1] /\ ret.stoppedEarly)

\* C3, amended: with concurrency 1 and a finite budget B the units not served from the
\* cache are executed in input order and the executed results are the prefix of those
\* units that ends with the B-th failing one (all of them if fewer than B fail); the
\* returned list is the cached results followed by the executed ones; for
\* [failing, passing] with maxFailures = 1 and no cache hit the run returns exactly one
\* result, the failing unit's, and stoppedEarly is true.
C3_ExecutedAreRunnablePrefix ==
    /\ (FirstPassOver /\ cfg.parallel = 1 /\ Budget.t = "number")
          => PrefixThroughFailure(pool.results, runnableFiles, Budget.n)
    /\ (pc = "first" /\ cfg.parallel = 1 /\ Budget.t = "number")
          => /\ IsPrefix(FilesOf(pool.results), runnableFiles)
             /\ \A w \in Workers : pool.workers[w].st = "running"
                    => pool.workers[w].file = runnableFiles[Len(pool.results) + 1]
    /\ (Returned /\ cfg.parallel = 1 /\ cfg.retries = 0 /\ Len(files) = 2
          /\ ResolvedMaxFailures(cfg.bail, cfg.maxFailures) = NUM(1)
          /\ Len(ret.results) > 0 /\ ret.results[1].file = files[1]
          /\ ~ret.results[1].passed /\ \A i \in 1..Len(ret.results) : ~ret.results[i].cached)
          => (Len(ret.results) = 1 /\ ret.stoppedEarly)
    /\ Returned => \A i \in 1..Len(ret.results) :
                       ret.results[i].cached =>
                           \A j \in 1..(i - 1) : ret.results[j].cached

C3_Witness ==
    /\ FirstPassOver /\ cfg.parallel = 1 /\ Budget = NUM(1)
    /\ Len(stickyCachedResults) = 1 /\ pool.failures = 1 /\ Len(pool.queue) = 1
    /\ Len(pool.results) = 1

\* ------------------------------------------------------------------ the sticky cache
\* Two runs with the sticky cache on, starting without a cache file; between the runs
\* a test file is edited, deleted or restored.  Cache writes and resets can fail.
CacheTimeouts == {DefaultTimeout, ShortTimeout}

CacheConfigs ==
    Configs({1}, 0..1, {FALSE}, {UNDEFINED}, {FALSE}, {TRUE}, BOOLEAN, CacheTimeouts)

CacheBehaviours == { b \in Behaviours : b.duration = 1 /\ b.kind = "close" /\ ~b.timedOut }
CacheIO == IO(BOOLEAN, {1000}, {TRUE})
CacheFileLists == FileLists(2)
EditedPaths == {"a.test.ts"}

InitCache == InitWith({1}, {AbsentFile})

NextCache ==
    \/ Idle(MaxRuns) /\ \E fs \in CacheFileLists, c \in CacheConfigs, rmOk \in BOOLEAN :
           StartRun(fs, c, rmOk)
    \/ InPass /\ \E w \in Workers, b \in CacheBehaviours : Complete(w, b)
    \/ Settled /\ \E io \in CacheIO : EndFirstPass(io)
    \/ Settled /\ \E io \in CacheIO : EndRetryPass(io)
    \/ Idle(MaxRuns) /\ \E p \in EditedPaths, bytes \in 0..MaxContent : EditFile(p, bytes)

SpecCache == InitCache /\ [][NextCache]_vars

Occurs(fs, f) == \E i \in 1..Len(fs) : fs[i] = f
ResultsFor(results, f) == SelectSeq(results, LAMBDA r : r.file = f)
LastResultFor(results, f) == ResultsFor(results, f)[Len(ResultsFor(results, f))]
AllPassed(results, f) == \A i \in 1..Len(results) : results[i].file = f => results[i].passed
AllFailed(results, f) == \A i \in 1..Len(results) : results[i].file = f => ~results[i].passed
NoneCached(results, f) == \A i \in 1..Len(results) : results[i].file = f => ~results[i].cached

\* the next call of runIsolated, from the state the previous call returned in
StartsRun == pc = "idle" /\ pc' = "first"
\* the return of runIsolated, from the state its last pass settled in
EndsRun == InPass /\ pc' = "idle"

\* the second run serves f from the cache with the counts of the first run
ServedFromCache(f) ==
    /\ NoneCached(ret.results, f)
    /\ ~Occurs(runnableFiles', f)
    /\ Occurs(FilesOf(stickyCachedResults'), f)
    /\ \A j \in 1..Len(stickyCachedResults') :
           stickyCachedResults'[j].file = f =>
               /\ stickyCachedResults'[j].cached
               /\ stickyCachedResults'[j].passed
               /\ stickyCachedResults'[j].duration = 0
               /\ stickyCachedResults'[j].failCount = 0
               /\ stickyCachedResults'[j].passCount = LastResultFor(ret.results, f).passCount
               /\ stickyCachedResults'[j].skipCount = LastResultFor(ret.results, f).skipCount

\* f passed in the first run, which started without a cache, and the second run is
\* about to fingerprint the same bytes under the same salt
SameUnitAgain(f) ==
    /\ StartsRun /\ runs = 1
    /\ cfg.stickyPassEnabled /\ cfg'.stickyPassEnabled
    /\ cfg'.timeout = cfg.timeout
    /\ Occurs(files, f) /\ Occurs(files', f)
    /\ fileContent[f] = startBytes[f]
    /\ AllPassed(ret.results, f)

CacheSalts == { BuildStickyRunSalt(bunVersion, preloadContent, t) : t \in CacheTimeouts }

\* the loaded cache has an entry for f that was made from other bytes than f has now
HasEntryOfOtherContent(f) ==
    /\ stickyCache[f].present
    /\ \E c \in Contents, salt \in CacheSalts :
           /\ stickyCache[f].fingerprint = BuildStickyFingerprint(f, c, salt)
           /\ startBytes[f] # c

\* C8: a unit that has a cache entry and whose file content was changed to any other
\* content before the run is not served from the cache: the run executes it and its
\* results have cached = false.
C8_ChangedContentIsExecuted ==
    [][\A f \in Paths :
          (EndsRun /\ cfg.stickyPassEnabled /\ Occurs(files, f) /\ HasEntryOfOtherContent(f))
              => /\ Occurs(runnableFiles, f)
                 /\ ~Occurs(FilesOf(stickyCachedResults), f)
                 /\ Occurs(FilesOf(ret'.results), f)
                 /\ NoneCached(ret'.results, f)]_vars

C8_Witness ==
    /\ pc = "first" /\ runs = 1 /\ cfg.stickyPassEnabled
    /\ HasEntryOfOtherContent("a.test.ts")
    /\ stickyCache["a.test.ts"].fingerprint = BuildStickyFingerprint("a.test.ts", 1, runSalt)
    /\ startBytes["a.test.ts"] = 2
    /\ Len(pool.results) = 1 /\ pool.results[1].file = "a.test.ts" /\ ~pool.results[1].cached

\* C9: when a unit that has a cache entry is executed and all its results are Failed,
\* the cache the run persists has no entry for it, whatever made the unit runnable, its
\* file being unreadable at fingerprint time included.  (Stated for the runs whose cache
\* write succeeded.)
C9_FailedUnitLosesEntry ==
    [][\A f \in Paths :
          (/\ EndsRun /\ cfg.stickyPassEnabled /\ cacheWritten'
           /\ stickyCache[f].present
           /\ Occurs(FilesOf(ret'.results), f)
           /\ AllFailed(ret'.results, f)) => ~cacheFile'.entries[f].present]_vars

\* ------------------------------------------------------------------ edits during a run
\* Two runs with the sticky cache on and nothing failing but the tests, while a test
\* file is edited at any moment, between the fingerprinting and the spawn included.
RaceConfigs ==
    Configs({1}, 0..1, {FALSE}, {UNDEFINED}, {FALSE}, {TRUE}, {FALSE}, {DefaultTimeout})

RaceIO == IO({TRUE}, {1000}, {TRUE})

InitRace == InitWith({1}, {AbsentFile})

NextRace ==
    \/ Idle(MaxRuns) /\ \E fs \in CacheFileLists, c \in RaceConfigs : StartRun(fs, c, TRUE)
    \/ InPass /\ \E w \in Workers, b \in CacheBehaviours : Complete(w, b)
    \/ Settled /\ \E io \in RaceIO : EndFirstPass(io)
    \/ Settled /\ \E io \in RaceIO : EndRetryPass(io)
    \/ runs < MaxRuns /\ \E p \in EditedPaths, bytes \in 0..MaxContent : EditFile(p, bytes)

SpecRace == InitRace /\ [][NextRace]_vars

\* C10: a unit is served from the cache only with a content digest and a run salt that
\* one of its executions ran and passed with: the content that is skipped is content
\* that was executed and passed.
C10_CacheHitWasExecuted ==
    \A i \in 1..Len(stickyCachedResults) :
        <<stickyCachedResults[i].file, startBytes[stickyCachedResults[i].file], runSalt>>
            \in passedExec

\* ------------------------------------------------------------------ the retry pass
\* One run with one or two workers and every retry count, the sticky cache on or off,
\* over children that pass, fail or time out after different durations.
RetryConfigs ==
    Configs(1..MaxParallel, 0..MaxRetries, {FALSE}, {UNDEFINED, NUM(1)}, {TRUE}, BOOLEAN,
            {FALSE}, {DefaultTimeout})

RetryBehaviours ==
    { b \in Behaviours : \/ b.code = 0 /\ b.pass = 1
                         \/ b.kind = "close" /\ b.code = 1 /\ b.duration = 1
                         \/ b.timedOut /\ b.duration = MaxDuration }

RetryCacheFiles ==
    { AbsentFile,
      PayloadFile([NoEntries EXCEPT !["b.test.ts"] =
                      Entry(BuildStickyFingerprint("b.test.ts", 1, Salt0), 1, 0)]) }

InitRetry == InitWith({1}, RetryCacheFiles)

NextRetry ==
    \/ Idle(1) /\ \E fs \in FileLists(MaxFiles), c \in RetryConfigs : StartRun(fs, c, TRUE)
    \/ InPass /\ \E w \in Workers, b \in RetryBehaviours : Complete(w, b)
    \/ Settled /\ \E io \in SchedIO : EndFirstPass(io)
    \/ Settled /\ \E io \in SchedIO : EndRetryPass(io)

SpecRetry == InitRetry /\ [][NextRetry]_vars

Count(fs, f) == Cardinality({ i \in 1..Len(fs) : fs[i] = f })

\* the retry pass returns: f failed in the first pass and passed in the retry pass
PassedOnRetry(f) ==
    /\ pc = "retry" /\ pc' = "idle"
    /\ Occurs(FilesOf(Failed(runResults)), f)
    /\ Occurs(FilesOf(pool.results), f)
    /\ AllPassed(pool.results, f)

\* the returned list has one result for f, the retry's, where the failed one was, and
\* the totals are those of the returned list
ReplacedByRetry(f) ==
    /\ Len(ResultsFor(ret'.results, f)) = 1
    /\ AllPassed(ret'.results, f)
    /\ \A i \in 1..Len(runResults) :
           (runResults[i].file = f /\ ~runResults[i].passed) =>
               /\ Len(stickyCachedResults) + i <= Len(ret'.results)
               /\ ret'.results[Len(stickyCachedResults) + i] = LastResultFor(pool.results, f)
    /\ ret'.passed = SumOver(ret'.results, 1, "pass")
    /\ ret'.failed = SumOver(ret'.results, 1, "fail")
    /\ ret'.skipped = SumOver(ret'.results, 1, "skip")

\* C11, as stated: with retries > 0 a unit that fails in the first pass and passes on
\* retry ends the run with exactly one result for its path, at the same position, Passed,
\* with the retry's duration, counts and output; nothing of the failed attempt remains.
C11_RetryReplacesFailure ==
    [][\A f \in Paths : PassedOnRetry(f) => ReplacedByRetry(f)]_vars

\* C11, amended: the same for a unit whose path is listed once in the input.
C11_RetryReplacesFailureOfUniquePath ==
    [][\A f \in Paths : (PassedOnRetry(f) /\ Count(files, f) = 1) => ReplacedByRetry(f)]_vars

C11_Witness ==
    /\ Returned /\ cfg.retries > 0 /\ cfg.stickyPassEnabled
    /\ files = <<"b.test.ts", "a.test.ts">>
    /\ Len(stickyCachedResults) = 1
    /\ Len(ret.results) = 2
    /\ ret.results[2].file = "a.test.ts" /\ ret.results[2].passed
    /\ ret.results[2].duration = MaxDuration
    /\ ret.failed = 0

\* the children started on f by the runParallel call in progress
StartedOn(f) ==
    Count(FilesOf(pool.results), f)
        + Cardinality({ w \in Workers : pool.workers[w].st = "running"
                                         /\ pool.workers[w].file = f })

\* the children started on f so far in this run
ExecutionsOf(f) ==
    IF pc = "first" THEN StartedOn(f)
    ELSE IF pc = "retry" THEN Count(FilesOf(runResults), f) + StartedOn(f)
    ELSE 0

C13_RetriedNTimes ==
    [][\A f \in Paths :
          (/\ EndsRun /\ Count(files, f) = 1
           /\ Occurs(FilesOf(ret'.results), f)
           /\ AllFailed(ret'.results, f)) => ExecutionsOf(f) = cfg.retries + 1]_vars

\* the results of the first pass, in either pass
FirstPassResults == IF pc = "first" THEN pool.results ELSE runResults

\* C15: the result list has exactly one result for each unit (entry of the input list)
\* that was executed or served from the cache and none for a unit the failure budget
\* left in the queue: no unit has two results and no executed unit's result is lost.
C15_OneResultPerUnit ==
    /\ [](pc = "first" =>
             \A f \in Paths :
                 Count(files, f) = Count(FilesOf(stickyCachedResults), f)
                                   + Count(pool.queue, f) + StartedOn(f))
    /\ [][EndsRun =>
             \A f \in Paths :
                 /\ Count(FilesOf(ret'.results), f)
                        = Count(FilesOf(stickyCachedResults), f)
                          + Count(FilesOf(FirstPassResults), f)
                 /\ Count(FilesOf(SelectSeq(ret'.results, LAMBDA r : r.cached)), f)
                        = Count(FilesOf(stickyCachedResults), f)
                 /\ Count(FilesOf(ret'.results), f) <= Count(files, f)
                 /\ (pc = "first" =>
                        Count(files, f) = Count(FilesOf(ret'.results), f)
                                          + Count(pool.queue, f))]_vars

C15_Witness ==
    /\ Returned /\ cfg.stickyPassEnabled /\ cfg.maxFailures = NUM(1) /\ cfg.retries > 0
    /\ files = <<"b.test.ts", "a.test.ts", "a.test.ts">>
    /\ Len(stickyCachedResults) = 1
    /\ Len(ret.results) = 2
    /\ ret.results[1].cached /\ ~ret.results[2].cached /\ ret.results[2].passed
    /\ ret.stoppedEarly

\* ------------------------------------------------------------------ the command line
\* One process of the command-line tool: every argument list of up to MaxArgs arguments.
ArgTokens ==
    { Arg("--bail", 0), Arg("--files", 0), Arg("--retries=", 1) }
        \cup { Arg("--max-failures=", n) : n \in 1..MaxMaxFailures }
        \cup { Arg("--parallel=", n) : n \in 1..MaxParallel }
        \cup { FileArg(p) : p \in Paths }

ArgLists == UNION { [1..k -> ArgTokens] : k \in 0..MaxArgs }
CpuCounts == {1, 4}
Discovered == { <<>>, <<"a.test.ts", "b.test.ts">> }

CliBehaviours == { b \in Behaviours : b.duration = 1 /\ b.pass < 2 }

InitCli == InitWith({1}, {AbsentFile})

NextCli ==
    \/ (pc = "idle" /\ runs = 0 /\ argv = <<>>)
           /\ \E args \in ArgLists, jobs \in 0..1, cpuCount \in CpuCounts, found \in Discovered :
                  Main(args, jobs, cpuCount, FALSE, found)
    \/ InPass /\ \E w \in Workers, b \in CliBehaviours : Complete(w, b)
    \/ Settled /\ \E io \in SchedIO : EndFirstPass(io)
    \/ Settled /\ \E io \in SchedIO : EndRetryPass(io)

SpecCli == InitCli /\ [][NextCli]_vars

\* C14: the exit code of the tool is non-zero iff at least one unit's final result is
\* Failed, whatever made it fail (non-zero exit, timeout, spawn error) and whatever
\* counts were parsed from its output.
C14_ExitCodeReportsFailure ==
    Returned => (MainExitCode(ret) # 0 <=> \E i \in 1..Len(ret.results) : ~ret.results[i].passed)

\* the option is among the arguments main parses (before any --files)
Given(arg) ==
    \E i \in 1..Len(argv) : argv[i] = arg /\ \A j \in 1..(i - 1) : argv[j].name # "--files"

\* C16: --bail reaches runIsolated as bail = true and --max-failures=N as
\* maxFailures = N, so that a run with one worker schedules no new file after the first
\* (the N-th) failed file.
C16_BailFlagsReachRunIsolated ==
    /\ (InPass /\ Given(Arg("--bail", 0))) =>
           /\ cfg.bail
           /\ (pc = "first" /\ cfg.parallel = 1 /\ pool.failures >= 1) => ~AnyRunning
    /\ \A n \in 1..MaxMaxFailures :
           (InPass /\ Given(Arg("--max-failures=", n)) /\ ~Given(Arg("--bail", 0))
              /\ \A m \in 1..MaxMaxFailures : Given(Arg("--max-failures=", m)) => m = n) =>
               /\ cfg.maxFailures = NUM(n)
               /\ (pc = "first" /\ cfg.parallel = 1 /\ pool.failures >= n) => ~AnyRunning

\* ------------------------------------------------------------------ the telemetry record
\* One run with one worker and telemetry on, the sticky cache on or off, over children
\* of different durations and runs of different lengths.
StatsConfigs ==
    Configs({1}, 0..1, {FALSE}, {UNDEFINED, NUM(1)}, {TRUE}, BOOLEAN, {FALSE}, {DefaultTimeout})

StatsBehaviours == { b \in Behaviours : b.kind = "close" /\ ~b.timedOut /\ b.pass < 2 }
StatsElapsed == {0, 1000, 2000, 3000}
StatsIO == IO({TRUE}, StatsElapsed, {TRUE})

InitStats == InitWith({1}, RetryCacheFiles)

NextStats ==
    \/ Idle(1) /\ \E fs \in FileLists(MaxFiles), c \in StatsConfigs : StartRun(fs, c, TRUE)
    \/ InPass /\ \E w \in Workers, b \in StatsBehaviours : Complete(w, b)
    \/ Settled /\ \E io \in StatsIO : EndFirstPass(io)
    \/ Settled /\ \E io \in StatsIO : EndRetryPass(io)

SpecStats == InitStats /\ [][NextStats]_vars

\* the record the last completed run appended
LastRecord == telemetryLog[Len(telemetryLog)]
Recorded == Returned /\ cfg.telemetryEnabled /\ Len(telemetryLog) > 0
NumCached(results) == Cardinality({ i \in 1..Len(results) : results[i].cached })
NumExecuted(results) == Cardinality({ i \in 1..Len(results) : ~results[i].cached })

\* C17: in every telemetry record discoveredFiles is the number of input units,
\* executedFiles the number of results with cached = false, stickyHits the number of
\* cached results, and executedFiles + stickyHits the length of the result list, at most
\* discoveredFiles, with equality iff the run did not stop early.
C17_RecordCountsResults ==
    Recorded =>
        /\ LastRecord.discoveredFiles = Len(files)
        /\ LastRecord.executedFiles = NumExecuted(ret.results)
        /\ LastRecord.stickyHits = NumCached(ret.results)
        /\ LastRecord.executedFiles + LastRecord.stickyHits = Len(ret.results)
        /\ LastRecord.executedFiles + LastRecord.stickyHits <= LastRecord.discoveredFiles
        /\ (LastRecord.executedFiles + LastRecord.stickyHits = LastRecord.discoveredFiles)
               <=> ~ret.stoppedEarly

C17_Witness ==
    /\ Recorded /\ ret.stoppedEarly
    /\ LastRecord.discoveredFiles = 3
    /\ LastRecord.executedFiles = 1
    /\ LastRecord.stickyHits = 1

\* v is the k-th smallest of values: the element at index k - 1 of the ascending sort
IsKthSmallest(v, values, k) ==
    /\ \E i \in 1..Len(values) : values[i] = v
    /\ Cardinality({ i \in 1..Len(values) : values[i] <= v }) >= k
    /\ Cardinality({ i \in 1..Len(values) : values[i] < v }) < k

\* clamp(ceil(p * n) - 1, 0, n - 1) + 1, for p in hundredths clamped to [0, 100]
RankOf(pct, n) ==
    LET p == IF pct < 0 THEN 0 ELSE IF pct > 100 THEN 100 ELSE pct
        c == CHOOSE m \in 0..n : 100 * m >= p * n /\ 100 * (m - 1) < p * n
    IN  IF c < 1 THEN 1 ELSE IF c > n THEN n ELSE c

IsPercentile(v, values, pct) ==
    IF Len(values) = 0 THEN v = 0 ELSE IsKthSmallest(v, values, RankOf(pct, Len(values)))

Percentiles == {-50, 0, 50, 95, 100, 150}
ExecutedDurations == DurationsOf(SelectSeq(ret.results, LAMBDA r : ~r.cached))

\* C19: calculatePercentile over n durations is the element at index
\* clamp(ceil(p * n) - 1, 0, n - 1) of the ascending sort, p clamped to [0, 1], and 0 for
\* no durations; the record's p50 and p95 are taken over the executed (non-cached)
\* results only; for [10, 20, 30, 40] p50 is 20 and p95 is 40; the result is one of the
\* input durations.
C19_PercentileIsOrderStatistic ==
    /\ CalculatePercentile(<<10, 20, 30, 40>>, 50) = 20
    /\ CalculatePercentile(<<40, 10, 30, 20>>, 95) = 40
    /\ CalculatePercentile(<<>>, 50) = 0
    /\ Returned =>
           \A pct \in Percentiles :
               IsPercentile(CalculatePercentile(ExecutedDurations, pct), ExecutedDurations, pct)
    /\ Recorded =>
           /\ IsPercentile(LastRecord.p50Ms, ExecutedDurations, 50)
           /\ IsPercentile(LastRecord.p95Ms, ExecutedDurations, 95)

C19_Witness ==
    /\ Recorded
    /\ Len(ret.results) = 3 /\ ret.results[1].cached
    /\ ExecutedDurations = <<2, 1>>
    /\ LastRecord.p50Ms = 1 /\ LastRecord.p95Ms = 2

\* C20, as stated: filesPerSecond is executedFiles * 1000 / elapsedMs when elapsedMs > 0
\* and 0 when elapsedMs is 0, executedFiles counting only non-cached results; for 10
\* files in 2000 ms it is 5.  (filesPerSecond is held in hundredths.)
C20_FilesPerSecondIsExact ==
    /\ FilesPerSecond(10, 2000) = 500
    /\ Recorded =>
           IF LastRecord.durationMs > 0
           THEN LastRecord.filesPerSecond * LastRecord.durationMs
                    = NumExecuted(ret.results) * 1000 * 100
           ELSE LastRecord.filesPerSecond = 0

\* C20, amended: filesPerSecond is executedFiles * 1000 / elapsedMs rounded to two
\* decimal places when elapsedMs > 0, and 0 when elapsedMs is 0.
C20_FilesPerSecondIsRounded ==
    /\ FilesPerSecond(10, 2000) = 500
    /\ Recorded =>
           IF LastRecord.durationMs > 0
           THEN LET exact == NumExecuted(ret.results) * 1000 * 100
                    shown == LastRecord.filesPerSecond * LastRecord.durationMs
                IN  /\ 2 * (shown - exact) <= LastRecord.durationMs
                    /\ 2 * (exact - shown) <= LastRecord.durationMs
           ELSE LastRecord.filesPerSecond = 0

C20_Witness ==
    /\ Recorded /\ LastRecord.durationMs = 3000
    /\ NumExecuted(ret.results) = 2 /\ NumCached(ret.results) = 1
    /\ LastRecord.filesPerSecond = 67

\* ------------------------------------------------------------------ the telemetry log
\* Runs with telemetry on or off whose appends succeed or fail, interleaved with the
\* appends of other invocations on the same log.
LogConfigs ==
    Configs({1}, 0..1, {FALSE}, {UNDEFINED}, BOOLEAN, {FALSE}, {FALSE}, {DefaultTimeout})

LogIO == IO({TRUE}, {1000}, BOOLEAN)

OtherRecords ==
    { BuildTelemetrySummary(1, <<RunTestFileResult("b.test.ts", b)>>, 2000, 1, 0, INF, FALSE) :
        b \in SchedBehaviours }

InitLog == InitWith({1}, {AbsentFile})

NextLog ==
    \/ Idle(MaxRuns) /\ \E fs \in FileLists(1), c \in LogConfigs : StartRun(fs, c, TRUE)
    \/ InPass /\ \E w \in Workers, b \in SchedBehaviours : Complete(w, b)
    \/ Settled /\ \E io \in LogIO : EndFirstPass(io)
    \/ Settled /\ \E io \in LogIO : EndRetryPass(io)
    \/ telemetryRuns.enabled < MaxRuns
           /\ \E enabled \in BOOLEAN, record \in OtherRecords, writeOk \in BOOLEAN :
                  ConcurrentRunEnds(enabled, record, writeOk)

SpecLog == InitLog /\ [][NextLog]_vars

\* no step changes a written record, and a run with telemetry off leaves the log alone
AppendOnly ==
    /\ IsPrefix(telemetryLog, telemetryLog')
    /\ Len(telemetryLog') <= Len(telemetryLog) + 1
    /\ (EndsRun /\ ~cfg.telemetryEnabled) => telemetryLog' = telemetryLog

\* C18, as stated: after any sequence of runs on the same telemetry log, interleaved
\* runs included, the log holds exactly one record per completed telemetry-enabled run,
\* every record written earlier is unchanged, and a run with telemetry disabled leaves
\* the log unchanged.
C18_OneRecordPerEnabledRun ==
    /\ [](Len(telemetryLog) = telemetryRuns.enabled)
    /\ [][AppendOnly]_vars

\* C18, amended: the log holds exactly one record per completed telemetry-enabled run
\* whose append succeeded (a failed append is logged and leaves the log as it was); the
\* rest as stated.
C18_OneRecordPerAppendedRun ==
    /\ [](Len(telemetryLog) = telemetryRuns.appended)
    /\ [][AppendOnly]_vars
    /\ [][(EndsRun /\ cfg.telemetryEnabled /\ telemetryRuns'.appended = telemetryRuns.appended)
             => telemetryLog' = telemetryLog]_vars

C18_Witness ==
    /\ Returned /\ runs = MaxRuns /\ cfg.telemetryEnabled
    /\ telemetryRuns.enabled = 3 /\ telemetryRuns.appended = 3
    /\ Len(telemetryLog) = 3
    /\ telemetryLog[2] \in OtherRecords /\ telemetryLog[1] \notin OtherRecords

\* ------------------------------------------------------------------ worker pool
\* the units the scheduling pass in progress was called with
PassInput == IF pc = "first" THEN runnableFiles ELSE FilesOf(Failed(runResults))
\* a step of the scheduling pass in progress
PassStep == InPass /\ pc' = pc
RunningOn(f) ==
    Cardinality({ w \in Workers : pool.workers[w].st = "running" /\ pool.workers[w].file = f })
InFlight == Cardinality({ w \in Workers : pool.workers[w].st = "running" })
\* worker w's child settles in this step: its result is the one appended
Appended(w) ==
    /\ pc' = pc
    /\ Len(pool'.results) = Len(pool.results) + 1
    /\ IsPrefix(pool.results, pool'.results)
    /\ pool'.results[Len(pool'.results)].file = pool.workers[w].file

\* C21: once the failure counter has reached the budget no worker dequeues another
\* unit; a dequeued unit stays in flight until its result is appended to the result
\* list (no step cancels it, and the pass does not end while it runs), so that when the
\* pass has settled every dequeued unit has its result.
C21_NoDequeueAfterBudget ==
    /\ [][PassStep => (~CanContinue(pool'.failures, PassMaxFailures)
                          => pool'.queue = pool.queue)]_vars
    /\ [][\A w \in Workers :
             pool.workers[w].st = "running"
                 => (pool'.workers[w] = pool.workers[w] \/ Appended(w))]_vars
    /\ [](Settled => Len(pool.results) + Len(pool.queue) = Len(PassInput))

C21_Witness ==
    /\ FirstPassOver /\ cfg.parallel = 2 /\ Budget = NUM(1)
    /\ pool.failures = 1 /\ ~pool.results[1].passed
    /\ Len(pool.results) = 2 /\ Len(pool.queue) = 1

\* C22: under every interleaving of worker completions the failure counter equals the
\* number of Failed results appended so far, and the completed counter equals the
\* length of the result list.
C22_CountersMatchResults ==
    InPass => /\ pool.failures = NumFailed(pool.results)
              /\ pool.completed = Len(pool.results)

C22_Witness ==
    /\ pc = "first" /\ cfg.parallel = 2 /\ InFlight = 2
    /\ pool.workers[1].file = "b.test.ts" /\ pool.workers[2].file = "a.test.ts"
    /\ pool.failures = 1 /\ pool.completed = 1

\* C23: every entry of the pass' unit list is in exactly one place: still queued, in
\* flight on one worker, or resulted, so it is dequeued by one worker and executed at
\* most once in the pass; a step only removes entries from the head of the queue; no
\* two workers execute the same entry (a path runs on at most as many workers as the
\* list names it).
C23_EachEntryDequeuedOnce ==
    /\ [](InPass => \A f \in Paths :
             /\ Count(pool.queue, f) + RunningOn(f) + Count(FilesOf(pool.results), f)
                    = Count(PassInput, f)
             /\ RunningOn(f) <= Count(PassInput, f))
    /\ [][PassStep =>
             /\ Len(pool'.queue) <= Len(pool.queue)
             /\ pool'.queue = SubSeq(pool.queue, Len(pool.queue) - Len(pool'.queue) + 1,
                                     Len(pool.queue))]_vars

C23_Witness ==
    /\ pc = "first" /\ runnableFiles = <<"a.test.ts", "b.test.ts", "a.test.ts">>
    /\ pool.workers[1].st = "running" /\ pool.workers[1].file = "a.test.ts"
    /\ pool.workers[2].st = "running" /\ pool.workers[2].file = "b.test.ts"
    /\ FilesOf(pool.results) = <<"a.test.ts">>

\* C24: at every moment of a scheduling pass the units in flight (dequeued, not yet
\* resulted) are as many as the workers that are running one, so no worker has two, and
\* they are at most min(concurrency, number of units) (none for a concurrency below 1).
C24_InFlightBounded ==
    InPass =>
        /\ InFlight = Len(PassInput) - Len(pool.queue) - Len(pool.results)
        /\ InFlight <= Max(0, Min(cfg.parallel, Len(PassInput)))

C24_Witness ==
    /\ pc = "first" /\ cfg.parallel = 2 /\ Len(PassInput) = 3
    /\ InFlight = 2 /\ Len(pool.results) = 1 /\ Len(pool.queue) = 0

\* C25: in a scheduling pass the 'reached max failures' line is printed once when the
\* failure counter has reached a finite budget and not at all while it is below it (or
\* the budget is unbounded); it is printed in the step where a failed result brings the
\* counter to the budget, and not again when units in flight fail afterwards.
C25_StopLoggedOnce ==
    /\ [](InPass => pool.stopLines =
                        IF CanContinue(pool.failures, PassMaxFailures) THEN 0 ELSE 1)
    /\ [][(PassStep /\ pool'.stopLines # pool.stopLines) =>
             /\ PassMaxFailures.t = "number"
             /\ pool.failures = PassMaxFailures.n - 1
             /\ pool'.failures = PassMaxFailures.n
             /\ Len(pool'.results) = Len(pool.results) + 1
             /\ ~pool'.results[Len(pool'.results)].passed]_vars

C25_Witness ==
    /\ pc = "first" /\ Budget = NUM(1) /\ cfg.parallel = 2
    /\ pool.failures = 2 /\ pool.stopLines = 1

\* ------------------------------------------------------------------ retry pass
\* C26: the retry pass is entered exactly when retries > 0 and a first-pass result is
\* Failed, also when the budget stopped the first pass; it runs under an unbounded
\* budget; the units it executes are, path by path, the Failed results of the first
\* pass (no passed, cached or never-executed unit), and when it has settled every one
\* of them has been executed again, whatever the earlier retries returned.
C26_RetryRunsExactlyTheFailed ==
    /\ [](pc = "retry" =>
             /\ PassMaxFailures = INF
             /\ cfg.retries > 0
             /\ NumFailed(runResults) > 0
             /\ \A f \in Paths :
                    /\ StartedOn(f) <= Count(FilesOf(Failed(runResults)), f)
                    /\ AllSettled(pool) =>
                           Count(FilesOf(pool.results), f)
                               = Count(FilesOf(Failed(runResults)), f))
    /\ [][(pc = "first" /\ pc' = "retry") => runResults' = pool.results]_vars
    /\ [][(pc = "first" /\ pc' = "idle") =>
             (cfg.retries = 0 \/ NumFailed(pool.results) = 0)]_vars

C26_Witness ==
    /\ pc = "retry" /\ AllSettled(pool) /\ cfg.maxFailures = NUM(1) /\ cfg.parallel = 2
    /\ Len(runnableFiles) = 3 /\ Len(runResults) = 2 /\ NumFailed(runResults) = 2
    /\ Len(pool.results) = 2 /\ ~pool.results[1].passed /\ pool.results[2].passed

\* ------------------------------------------------------------------ partition and commit
\* f is a cache hit of the run in progress: its fingerprint is non-null and the loaded
\* payload has an entry for its path with that fingerprint
IsHit(f) ==
    LET fingerprint == BuildStickyFingerprint(f, startBytes[f], runSalt)
    IN  /\ fingerprint # NullFp
        /\ stickyCache[f].present
        /\ stickyCache[f].fingerprint = fingerprint
Hits == SelectSeq(files, LAMBDA f : IsHit(f))

\* C27: with the sticky cache on, the partition puts every entry of the input list, in
\* input order, in exactly one of the two lists: the cache hits get a result with
\* cached = true, passed = true, duration 0, failCount 0 and the entry's passCount and
\* skipCount; every other unit, an unreadable one included, is runnable.
C27_PartitionClassifiesOnce ==
    (InPass /\ cfg.stickyPassEnabled) =>
        /\ runnableFiles = SelectSeq(files, LAMBDA f : ~IsHit(f))
        /\ FilesOf(stickyCachedResults) = Hits
        /\ Len(stickyCachedResults) + Len(runnableFiles) = Len(files)
        /\ \A f \in Paths : ~(Occurs(runnableFiles, f) /\ Occurs(Hits, f))
        /\ \A f \in Paths : (Occurs(files, f) /\ startBytes[f] = Unreadable)
                                => Occurs(runnableFiles, f)
        /\ \A i \in 1..Len(stickyCachedResults) :
               LET r == stickyCachedResults[i] IN
               /\ r.cached /\ r.passed /\ r.duration = 0 /\ r.failCount = 0
               /\ r.passCount = stickyCache[r.file].passCount
               /\ r.skipCount = stickyCache[r.file].skipCount

C27_Witness ==
    /\ pc = "first" /\ runs = 1 /\ cfg.stickyPassEnabled
    /\ files = <<"b.test.ts", "a.test.ts">>
    /\ stickyCache["a.test.ts"].present /\ startBytes["a.test.ts"] = Unreadable
    /\ runnableFiles = <<"a.test.ts">>
    /\ Len(stickyCachedResults) = 1 /\ stickyCachedResults[1].file = "b.test.ts"
    /\ stickyCachedResults[1].passCount = 2 /\ stickyCachedResults[1].skipCount = 1

\* the entry the commit writes for the passed result r of this run
CommittedEntry(r) ==
    Entry(BuildStickyFingerprint(r.file, startBytes[r.file], runSalt), r.passCount, r.skipCount)

\* C28: after the commit, for every executed unit: if its final result is Passed the
\* payload holds an entry for its path with the fingerprint computed in this run and the
\* result's pass and skip counts; if it is Failed the payload holds no entry for its
\* path.  (Stated for the paths with one final result.)
C28_CommitFollowsFinalResult ==
    (Returned /\ cfg.stickyPassEnabled) =>
        \A i \in 1..Len(runResults) :
            LET r == runResults[i] IN
            Count(FilesOf(runResults), r.file) = 1 =>
                /\ r.passed => stickyCache[r.file] = CommittedEntry(r)
                /\ ~r.passed => ~stickyCache[r.file].present

\* C29: the commit leaves the entry of every path without an executed result as the
\* load found it: the units served from the cache, the units the failure budget left
\* in the queue, and the paths that are not in this run's input; only entries of
\* executed units are created, overwritten or deleted, in the payload and in the file
\* the run writes.
C29_CommitTouchesOnlyExecuted ==
    [][(EndsRun /\ cfg.stickyPassEnabled) =>
          \A f \in Paths :
              ~Occurs(FilesOf(runResults'), f) =>
                  /\ stickyCache'[f] = stickyCache[f]
                  /\ cacheWritten' => cacheFile'.entries[f] = stickyCache[f]]_vars

C29_Witness ==
    /\ Returned /\ cfg.stickyPassEnabled /\ cacheWritten /\ ret.stoppedEarly
    /\ files = <<"a.test.ts", "b.test.ts">>
    /\ FilesOf(runResults) = <<"a.test.ts">> /\ ~runResults[1].passed
    /\ <<"a.test.ts", 2, Salt0>> \in passedExec
    /\ ~cacheFile.entries["a.test.ts"].present
    /\ cacheFile.entries["b.test.ts"] = Entry(BuildStickyFingerprint("b.test.ts", 2, Salt0), 1, 0)

\* ------------------------------------------------------------------ run salt
\* Two runs with the sticky cache on, over a cache that earlier runs left, while the
\* timeout, the tool version and the preload script change between the runs.
SaltConfigs ==
    Configs({1}, 0..1, {FALSE}, {UNDEFINED}, {FALSE}, {TRUE}, {FALSE}, CacheTimeouts)
SaltBehaviours == { b \in CacheBehaviours : b.pass < 2 }
SaltFileLists == FileLists(2)
BunVersions == {1, 2}
PreloadContents == {Unreadable, 1}

\* the entries of runs under Salt0 that passed both units
PassedEntries == [p \in Paths |-> Entry(BuildStickyFingerprint(p, 1, Salt0), 1, 0)]
\* the same runs of a build whose cache schema was one version older
OlderSalt0 == HashToHex(<<STICKY_PASS_CACHE_VERSION - 1, 1, Missing, DefaultTimeout>>)
OlderSchemaFile ==
    [state |-> "payload", version |-> STICKY_PASS_CACHE_VERSION - 1,
     entries |-> [p \in Paths |-> Entry(BuildStickyFingerprint(p, 1, OlderSalt0), 1, 0)]]
SaltCacheFiles == {AbsentFile, PayloadFile(PassedEntries), OlderSchemaFile}

InitSalt == InitWith({1}, SaltCacheFiles)

NextSalt ==
    \/ Idle(MaxRuns) /\ \E fs \in SaltFileLists, c \in SaltConfigs : StartRun(fs, c, TRUE)
    \/ InPass /\ \E w \in Workers, b \in SaltBehaviours : Complete(w, b)
    \/ Settled /\ \E io \in SchedIO : EndFirstPass(io)
    \/ Settled /\ \E io \in SchedIO : EndRetryPass(io)
    \/ Idle(MaxRuns) /\ \E v \in BunVersions : UpgradeTool(v)
    \/ Idle(MaxRuns) /\ \E bytes \in PreloadContents : EditPreload(bytes)

SpecSalt == InitSalt /\ [][NextSalt]_vars

\* the inputs of the salt of the run that is starting
NewSaltInputs ==
    <<STICKY_PASS_CACHE_VERSION, bunVersion, HashFileIfExists(preloadContent), cfg'.timeout>>
\* the inputs of the salt a fingerprint was computed under
SaltInputsOf(fingerprint) == fingerprint.of[1].of
\* a run starts on a cache file of another schema version
StartsOnOtherSchema ==
    /\ StartsRun /\ cfg'.stickyPassEnabled
    /\ cacheFile.state = "payload" /\ cacheFile.version # STICKY_PASS_CACHE_VERSION

\* C30, as stated: if an input of the run salt (timeout, preload script, tool version,
\* cache schema version) differs between two consecutive runs with the cache on, no
\* unit is served from the cache in the second run, whatever entries the payload holds.
C30_SaltChangeEmptiesTheHits ==
    /\ [][(/\ StartsRun /\ runs > 0
           /\ cfg.stickyPassEnabled /\ cfg'.stickyPassEnabled
           /\ runSalt.of # NewSaltInputs) => stickyCachedResults' = <<>>]_vars
    /\ [][StartsOnOtherSchema => stickyCachedResults' = <<>>]_vars

\* C30, amended: a unit is served from the cache only from an entry of a payload of this
\* schema version whose fingerprint was computed under the salt inputs of the run that
\* serves it; an entry written under other inputs (those of the previous run, when an
\* input has changed since) is never served.
C30_OnlyEntriesOfThisSaltAreServed ==
    /\ [][(StartsRun /\ cfg'.stickyPassEnabled) =>
             \A i \in 1..Len(stickyCachedResults') :
                 LET e == cacheFile.entries[stickyCachedResults'[i].file] IN
                 /\ cacheFile.state = "payload"
                 /\ cacheFile.version = STICKY_PASS_CACHE_VERSION
                 /\ e.present
                 /\ SaltInputsOf(e.fingerprint) = NewSaltInputs]_vars
    /\ [][StartsOnOtherSchema => stickyCachedResults' = <<>>]_vars

C30_Witness ==
    /\ pc = "first" /\ runs = 1 /\ cfg.stickyPassEnabled /\ runSalt = Salt0
    /\ files = <<"a.test.ts", "b.test.ts">>
    /\ FilesOf(stickyCachedResults) = <<"a.test.ts">> /\ runnableFiles = <<"b.test.ts">>
    /\ startBytes["b.test.ts"] = 1
    /\ cacheFile.entries["b.test.ts"].present
    /\ cacheFile.entries["b.test.ts"].fingerprint
           = BuildStickyFingerprint("b.test.ts", 1, BuildStickyRunSalt(1, Unreadable, ShortTimeout))

\* ------------------------------------------------------------------ loading the cache
\* C31: a run in reset mode starts from a clean slate: the persisted payload is deleted
\* before the load, no unit is served from the cache in that run and every input unit
\* is runnable.
C31_ResetStartsClean ==
    [][(StartsRun /\ cfg'.stickyPassEnabled /\ cfg'.stickyPassReset) =>
          /\ cacheFile'.state = "absent"
          /\ stickyCachedResults' = <<>>
          /\ runnableFiles' = files']_vars

\* One run with the sticky cache on over every kind of cache file: absent, unreadable,
\* corrupt, of another schema version, and with a malformed entry next to a good one.
LoadConfigs ==
    Configs(1..MaxParallel, 0..1, {FALSE}, {UNDEFINED}, {FALSE}, {TRUE}, {FALSE},
            {DefaultTimeout})
WithMalformed(p) == PayloadFile([PassedEntries EXCEPT ![p] = MalformedEntry])
LoadCacheFiles ==
    {AbsentFile, UnreadableFile, CorruptFile, OlderSchemaFile, PayloadFile(PassedEntries)}
        \cup { WithMalformed(p) : p \in Paths }

InitLoad == InitWith({1}, LoadCacheFiles)

NextLoad ==
    \/ Idle(1) /\ \E fs \in FileLists(MaxFiles), c \in LoadConfigs : StartRun(fs, c, TRUE)
    \/ InPass /\ \E w \in Workers, b \in SaltBehaviours : Complete(w, b)
    \/ Settled /\ \E io \in CacheIO : EndFirstPass(io)
    \/ Settled /\ \E io \in CacheIO : EndRetryPass(io)

SpecLoad == InitLoad /\ [][NextLoad]_vars

\* the cache file holds no payload of this schema version
NoUsablePayload(file) ==
    file.state \in {"absent", "unreadable", "corrupt"}
        \/ file.version # STICKY_PASS_CACHE_VERSION

\* C32: loading the cache never fails the run: with an absent, unreadable, corrupt or
\* version-mismatched cache file the run starts with an empty payload and every unit
\* runnable; a malformed entry is dropped and every other entry is loaded as it is (and
\* serves its unit); the run returns a result for every unit.
C32_LoadNeverFails ==
    /\ [][(StartsRun /\ cfg'.stickyPassEnabled) =>
             /\ pc' = "first"
             /\ NoUsablePayload(cacheFile) =>
                    (stickyCache' = NoEntries /\ runnableFiles' = files'
                        /\ stickyCachedResults' = <<>>)
             /\ ~NoUsablePayload(cacheFile) =>
                    \A p \in Paths :
                        /\ cacheFile.entries[p] = MalformedEntry => ~stickyCache'[p].present
                        /\ cacheFile.entries[p] # MalformedEntry =>
                               stickyCache'[p] = cacheFile.entries[p]
                        /\ (cacheFile.entries[p] = PassedEntries[p] /\ Occurs(files', p))
                               => Occurs(FilesOf(stickyCachedResults'), p)]_vars
    /\ [](Returned => Len(ret.results) = Len(files))

C32_Witness ==
    /\ Returned /\ cacheFile.state = "payload"
    /\ files = <<"a.test.ts", "b.test.ts">>
    /\ runnableFiles = <<"a.test.ts">> /\ FilesOf(stickyCachedResults) = <<"b.test.ts">>
    /\ ~ret.results[2].passed /\ ~ret.results[2].cached /\ ret.results[1].cached
    /\ ~cacheFile.entries["a.test.ts"].present

\* ------------------------------------------------------------------ cache I/O of a run
\* C33: a run with the sticky cache on loads the persisted payload once, before a unit
\* is spawned, and writes it once, in the step that ends the run, when no unit of the
\* first or of the retry pass is in flight or still to be executed; the cache file
\* changes in no other step.  A run with the cache off neither loads nor writes it and
\* marks no result cached.
C33_CacheReadOnceWrittenOnce ==
    /\ []((InPass \/ Returned) =>
             cacheOps.loads = (IF cfg.stickyPassEnabled THEN 1 ELSE 0))
    /\ [](InPass => cacheOps.writes = 0)
    /\ [](Returned => cacheOps.writes = (IF cfg.stickyPassEnabled THEN 1 ELSE 0))
    /\ [][cacheOps'.loads # cacheOps.loads => (StartsRun /\ ~AnyRunning)]_vars
    /\ [][cacheOps'.writes > cacheOps.writes =>
             (EndsRun /\ ~AnyRunning /\ cacheOps'.writes = 1)]_vars
    /\ [][cacheFile' # cacheFile => (EndsRun /\ cfg.stickyPassEnabled)]_vars
    /\ []((Returned /\ ~cfg.stickyPassEnabled) =>
             /\ stickyCachedResults = <<>>
             /\ \A i \in 1..Len(ret.results) : ~ret.results[i].cached)

C33_Witness ==
    /\ Returned /\ cfg.stickyPassEnabled /\ cfg.retries = 1 /\ cfg.parallel = 2
    /\ cacheOps = [loads |-> 1, writes |-> 1]
    /\ Len(stickyCachedResults) = 1 /\ Len(runResults) = 2
    /\ ~runResults[1].passed /\ runResults[2].passed
    /\ cacheFile.entries["a.test.ts"].present

\* ------------------------------------------------------------------ one unit execution
\* One call of runTestFile over every kind of child: one that exits on its own, one
\* that exits only when it is sent SIGTERM, one that does neither, and one that cannot
\* be started.  The events that are bound to happen do happen: an armed timer fires, a
\* pending event is delivered, a child that is willing to exit exits.
Natures == {"exits", "yields", "stubborn"}
ExitCodes == {0, 1, -1}
Exits ==
    { Behaviour("close", code, FALSE, c[1], c[2], c[3], stderr, 1) :
        code \in ExitCodes, c \in {<<1, 0, 0>>, <<0, 1, 0>>, <<2, 0, 1>>}, stderr \in BOOLEAN }

InitExec == InitWith({1}, {AbsentFile})

ChildExitsSomehow == \E b \in Exits : ChildExits(b)
CloseDelivered == \E d \in Durations : CloseEvent(d)
ErrorDelivered == \E d \in Durations : ErrorEvent(d)

NextExec ==
    \/ \E f \in Paths, n \in Natures, startable, lateClose \in BOOLEAN :
           Spawn(f, n, startable, lateClose)
    \/ ChildExitsSomehow
    \/ TimerFires
    \/ CloseDelivered
    \/ ErrorDelivered

SpecExec ==
    /\ InitExec /\ [][NextExec]_vars
    /\ WF_vars(ChildExitsSomehow) /\ WF_vars(TimerFires)
    /\ WF_vars(CloseDelivered) /\ WF_vars(ErrorDelivered)

Resolved == proc.call = "resolved"
\* the promise was resolved by the close handler of a child that had started
ResolvedByClose == Resolved /\ proc.child = "gone"

\* C34: for a unit whose process started, the result is Passed iff the exit code is 0
\* and the timer had not fired when 'close' was delivered; the error detail is the
\* timed-out message on a timeout, else the captured stderr, else the exit code
\* fallback, and is set iff the result is Failed.
C34_PassedIffExitZeroInTime ==
    ResolvedByClose =>
        /\ proc.result.passed <=> (proc.exit.code = 0 /\ ~proc.timedOut)
        /\ proc.result.error # "" <=> ~proc.result.passed
        /\ proc.result.error =
               IF proc.timedOut THEN "Test timed out"
               ELSE IF proc.exit.code = 0 THEN ""
               ELSE IF proc.exit.stderr THEN "stderr"
               ELSE "Exit code"

C34_Witness ==
    /\ ResolvedByClose /\ proc.exit.code = 0 /\ proc.timedOut /\ proc.nature = "exits"
    /\ ~proc.signalled /\ ~proc.result.passed /\ proc.result.error = "Test timed out"

\* C35: every unit execution eventually yields a result, also for a child that never
\* exits on its own and does not react to the termination request; a child still running
\* when the timer fires is terminated, and the unit resolves as Failed with the
\* timed-out error.
C35_EveryExecutionResolves ==
    /\ (proc.call = "pending") ~> Resolved
    /\ [](proc.timedOut => proc.child # "running" \/ proc.signalled)
    /\ []((ResolvedByClose /\ proc.timedOut) =>
              (~proc.result.passed /\ proc.result.error = "Test timed out"))

\* C36: when the process cannot be started the unit resolves as Failed with passCount 0,
\* failCount 1, skipCount 0 and the spawn error, the timer is cancelled (it never
\* fires), and the result stays the one of the error handler when a close event is
\* delivered after the error event.
C36_SpawnErrorResolvesOnce ==
    (proc.child = "unstartable" /\ ~proc.errorPending) =>
        /\ Resolved
        /\ ~proc.result.passed
        /\ proc.result.passCount = 0 /\ proc.result.failCount = 1 /\ proc.result.skipCount = 0
        /\ proc.result.error = "spawn error"
        /\ proc.timer = "cleared" /\ ~proc.timedOut
        /\ proc.resolves \in {1, 2}
        /\ proc.closePending => proc.resolves = 1

C36_Witness ==
    /\ proc.child = "unstartable" /\ Resolved /\ proc.resolves = 2 /\ ~proc.closePending
    /\ proc.result.error = "spawn error" /\ proc.result.failCount = 1

\* ------------------------------------------------------------------ failed writes
\* One run with the cache and the telemetry on or off, in which the write of the cache
\* file and the append to the telemetry log each succeed or fail.
WriteConfigs ==
    Configs({1}, 0..1, {FALSE}, {UNDEFINED, NUM(1)}, BOOLEAN, BOOLEAN, {FALSE},
            {DefaultTimeout})
WriteIO == IO(BOOLEAN, {1000}, BOOLEAN)

InitWrite == InitWith({1}, RetryCacheFiles)

NextWrite ==
    \/ Idle(1) /\ \E fs \in FileLists(2), c \in WriteConfigs : StartRun(fs, c, TRUE)
    \/ InPass /\ \E w \in Workers, b \in StatsBehaviours : Complete(w, b)
    \/ Settled /\ \E io \in WriteIO : EndFirstPass(io)
    \/ Settled /\ \E io \in WriteIO : EndRetryPass(io)

SpecWrite == InitWrite /\ [][NextWrite]_vars

\* C37: the run returns whether or not the write of the cache file and the append to
\* the telemetry log succeed, and what it returns is fixed by the results it has when the
\* last pass settles: the cached results followed by the executed ones, their summed
\* counts, and stoppedEarly; a failed write leaves the file or the log as it was.
C37_FailedWritesChangeNothing ==
    [][EndsRun =>
          /\ runs' = runs + 1
          /\ ret'.results = stickyCachedResults \o runResults'
          /\ Len(runResults') = Len(FirstPassResults)
          /\ ret'.passed = SumOver(ret'.results, 1, "pass")
          /\ ret'.failed = SumOver(ret'.results, 1, "fail")
          /\ ret'.skipped = SumOver(ret'.results, 1, "skip")
          /\ ret'.totalTests = ret'.passed + ret'.failed + ret'.skipped
          /\ ret'.stoppedEarly = (Len(ret'.results) < Len(files))
          /\ (cfg.stickyPassEnabled /\ ~cacheWritten') => cacheFile' = cacheFile
          /\ (cfg.telemetryEnabled /\ telemetryRuns'.appended = telemetryRuns.appended)
                 => telemetryLog' = telemetryLog]_vars

C37_Witness ==
    /\ Returned /\ cfg.stickyPassEnabled /\ cfg.telemetryEnabled
    /\ ~cacheWritten /\ telemetryRuns = [enabled |-> 1, appended |-> 0]
    /\ telemetryLog = <<>> /\ cacheFile.state = "absent"
    /\ files = <<"a.test.ts", "b.test.ts">> /\ Len(ret.results) = 1
    /\ ret.stoppedEarly /\ ret.failed = 1 /\ ret.totalTests = 1

\* ------------------------------------------------------------------ overshoot of the budget
\* the workers runParallel started
Started == Cardinality({ w \in Workers : pool.workers[w].st # "none" })

\* C38: in a first pass with W started workers and a finite budget B the Failed
\* results are never more than B + W - 1, and never more than B with one worker.
C38_FailuresOvershootByWorkers ==
    (pc = "first" /\ Budget.t = "number") =>
        /\ NumFailed(pool.results) <= Budget.n + Started - 1
        /\ Started = 1 => NumFailed(pool.results) <= Budget.n

C38_Witness ==
    /\ FirstPassOver /\ Budget = NUM(2) /\ Started = 2
    /\ NumFailed(pool.results) = 3 /\ Len(runnableFiles) = 3

\* ------------------------------------------------------------------ retries that pass
\* the retry pass returns and every retried execution passed
AllRetriesPassed ==
    /\ pc = "retry" /\ pc' = "idle"
    /\ \A i \in 1..Len(pool.results) : pool.results[i].passed

\* C39: for every input list, one that names a path more than once included, when
\* every retried execution passes the final result list has no Failed result, and the
\* retry pass leaves the length of the list and every result that passed in the first
\* pass as they were.
C39_PassingRetriesClearFailures ==
    [][AllRetriesPassed =>
          /\ NumFailed(runResults') = 0
          /\ \A i \in 1..Len(ret'.results) : ret'.results[i].passed
          /\ Len(runResults') = Len(runResults)
          /\ \A i \in 1..Len(runResults) :
                 runResults[i].passed => runResults'[i] = runResults[i]]_vars

\* C39, amended: the same for an input list that names every path once. When a path is
\* listed more than once every retry result replaces the first result with that path,
\* so a Failed result of a later occurrence can stay and a result that passed in the
\* first pass can be overwritten.
C39_PassingRetriesClearFailuresOfUniquePaths ==
    [][(AllRetriesPassed /\ \A f \in Paths : Count(files, f) <= 1) =>
          /\ NumFailed(runResults') = 0
          /\ \A i \in 1..Len(ret'.results) : ret'.results[i].passed
          /\ Len(runResults') = Len(runResults)
          /\ \A i \in 1..Len(runResults) :
                 runResults[i].passed => runResults'[i] = runResults[i]]_vars

C39_Witness ==
    /\ pc = "retry" /\ AllSettled(pool) /\ cfg.retries > 0
    /\ files = <<"a.test.ts", "b.test.ts">>
    /\ Len(runResults) = 2 /\ runResults[1].passed /\ ~runResults[2].passed
    /\ Len(pool.results) = 1 /\ pool.results[1].file = "b.test.ts"
    /\ pool.results[1].passed

\* ------------------------------------------------------------------ units left in the queue
\* the retry pass is in progress and the first pass, stopped by the failure budget,
\* left every occurrence of f in its queue
LeftInQueue(f) ==
    /\ pc = "retry"
    /\ Occurs(runnableFiles, f)
    /\ ~Occurs(FilesOf(runResults), f)

\* C40: a unit that the failure budget left in the queue of the first pass is never
\* executed in the retry pass and has no result at the end; its cache entry, in the
\* payload and in the file the run writes, stays as the load found it; and a run whose
\* first pass stopped early returns stoppedEarly = true after the retries, also when
\* every retried unit passes.
C40_LeftInQueueStaysOut ==
    /\ [](\A f \in Paths : LeftInQueue(f) => StartedOn(f) = 0)
    /\ [][(pc = "retry" /\ pc' = "idle") =>
             /\ \A f \in Paths :
                    LeftInQueue(f) =>
                        /\ ~Occurs(FilesOf(ret'.results), f)
                        /\ stickyCache'[f] = stickyCache[f]
                        /\ IF cfg.stickyPassEnabled
                           THEN cacheWritten' => cacheFile'.entries[f] = stickyCache[f]
                           ELSE cacheFile' = cacheFile
             /\ Len(runResults) < Len(runnableFiles) =>
                    /\ ret'.stoppedEarly
                    /\ Len(ret'.results) < Len(files)]_vars

C40_Witness ==
    /\ Returned /\ cfg.retries > 0 /\ cfg.stickyPassEnabled /\ cacheWritten
    /\ Budget = NUM(1)
    /\ files = <<"a.test.ts", "b.test.ts">>
    /\ runnableFiles = files
    /\ FilesOf(ret.results) = <<"a.test.ts">> /\ ret.results[1].passed
    /\ ret.failed = 0 /\ ret.stoppedEarly
    /\ cacheFile.entries["a.test.ts"].present
    /\ cacheFile.entries["b.test.ts"] = Entry(BuildStickyFingerprint("b.test.ts", 2, Salt0), 1, 0)

====
